---- MODULE Spec2Model ----
(***************************************************************************)
(* Room registry, connection layer and message router of the velvet-town  *)
(* backend (package Player_Logic: the RoomManager, the ConnectionPool and  *)
(* the websocket pumps).  Every section of code that runs under one lock   *)
(* acquisition, and every channel operation, is one atomic step of the     *)
(* task that runs it; the tasks interleave freely between those steps.     *)
(***************************************************************************)
EXTENDS Integers, Sequences, FiniteSets, Bags, TLC

(* ------------------------------------------------------------------ *)
(* Program constants                                                    *)
(* ------------------------------------------------------------------ *)
MaxPlayersPerRoom == 20
MaxConcurrentConnections == 1000
\* Capacity of a connection's send channel.
SendCap == 256
\* Private messages a connection may pass in one window of the limiter.
PMLimit == 20
\* time.Minute, in ticks of the model's clock (one tick is half a minute).
Minute == 2
\* The length of one tick in seconds: the period of the ticker of the player
\* activity monitor.
TickSeconds == 30
\* DisconnectedPlayerTTL, in seconds
DisconnectedPlayerTTL == 80
\* InactiveRoomTimeout, in seconds
InactiveRoomTimeout == 1800

(* ------------------------------------------------------------------ *)
(* Bounds of the model                                                  *)
(* ------------------------------------------------------------------ *)
\* Players for which tasks act.
NumActors == 2
\* Request tasks that run concurrently.
NumTasks == 2
\* Room objects made in one run.
MaxRoomObjs == 2
\* Join and leave requests issued in one run.
MaxCalls == 2
\* Upgrade requests issued in one run.
MaxConns == 2
\* Client events (an inbound frame, a transport close) in one run.
MaxEvents == 1
\* Private-message frames of one burst.
PMBurst == 25
\* Ticks of the clock in one run.
MaxNow == 3
\* Operations the worker takes from a channel that was full.
MaxDrain == 2
\* Tasks inside a registry function at a time, when their locks are followed.
MaxActive == 2

(* ------------------------------------------------------------------ *)
(* Identifiers                                                          *)
(* ------------------------------------------------------------------ *)
\* Player ids the tasks of the model act for.
Actors == 1..NumActors
\* Player ids that are members from the start and for which no task acts.
Fillers == {100 + i : i \in 1..MaxPlayersPerRoom}
AllPlayers == Actors \cup Fillers
\* The empty player id (an absent token).
NoPlayer == 0
\* The player_id "system" of a confirmation or error frame.
SystemID == -1
\* The empty room id: what a lookup in playerToRoom yields for an absent key.
NoRoomID == ""
\* The code of the main room, drawn once by generateRoomCode.
MainRoomID == "MAIN01"
RoomIDs == {MainRoomID, "ROOM1"}
\* Room objects (*Room) are named by handles; NilRoom is the nil pointer.
NilRoom == 0
RoomObjs == 1..MaxRoomObjs
\* rm.mainRoom: the object made by GetRoomManager.
mainRoom == 1
\* The tokens of the upgrade requests: the id of a player, or none.
Tokens == Actors \cup {NoPlayer}

\* Connections are named by the upgrade request that makes them.
Conns == 1..MaxConns
\* The connection a filler holds from the start is named by the filler's id.
\* Its client is slow: its pumps are blocked in the transport throughout.
AllConns == Conns \cup Fillers
\* The connection of a pool filler.
ForeignConn == 0
\* No connection (getConnection's exists = false).
NoConn == -1
\* Position{X: 0, Y: 0}, the position of a new Player; the other positions
\* are 1, 2, ...
Origin == 0
\* A frame without a position (message.Position == nil).
NilPosition == -1

\* A room_id as the request body gives it: the number of its characters and
\* how many of them are outside ASCII; NoText is the empty string.
NoText == [chars |-> 0, wide |-> 0]
\* len(body.RoomID) > 10 is an invalid room id.
MaxRoomIDLen == 10

VARIABLES
  rooms,         \* rm.rooms: room id -> room object (NilRoom: no entry)
  roomPlayers,   \* room.Players of every room object: the set of its keys
  nextRoom,      \* number of room objects made so far
  playerToRoom,  \* rm.playerToRoom: player id -> room id (NoRoomID: no entry)
  lastActivity,  \* room.LastActivity of every room object, in ticks
  playerRec,     \* the Player record room.Players holds for a key: IsActive
                 \* and LastSeen (NoRec: no such key)
  prior,         \* the registry as the caller of the registry functions last
                 \* saw it, and the call that had then returned
  thr,           \* the tasks: position (pc), return site (k) and locals
  calls,         \* number of join and leave requests issued so far
  dbOperations,  \* the channel of the async database worker: whether it was
                 \* made, and the operations it holds
  mu,            \* the sync.RWMutex of the registry, of the index, of the
                 \* statistics and of a room: the task in Lock (NoTask: none)
                 \* and the tasks that hold RLock
  pool,          \* connectionPool.connections: player id -> connection
  count,         \* connectionPool.count
  nextConn,      \* number of upgrade requests issued so far
  connection,    \* Connection.playerID and the room it was made for
  ctxDone,       \* whether the connection's context is cancelled
  ws,            \* the transport: "none", "open" or "closed"
  send,          \* Connection.send: the frames the channel holds
  events,        \* number of client events so far
  bcasts,        \* the broadcastToRoomAsync tasks in flight (a bag)
  drops,         \* per connection: frames dropped at its full channel (the
                 \* "Send channel full" log lines)
  preempted,     \* the connections addConnection has cancelled and replaced
  messageCount,  \* Connection.messageCount
  lastMessageTime, \* Connection.lastMessageTime, in ticks
  now,           \* time.Now(), in ticks
  tally          \* per connection, for the limiter window that is open: the
                 \* private_message frames handled, passed, offered to a
                 \* connection, confirmed and answered with an error

regVars == <<rooms, roomPlayers, nextRoom, playerToRoom, lastActivity, playerRec, prior>>
poolVars == <<pool, count>>
connVars == <<nextConn, connection, ctxDone, ws, send, events, bcasts, drops, preempted>>
pmVars == <<messageCount, lastMessageTime, now, tally>>
vars == <<regVars, thr, calls, dbOperations, mu, poolVars, connVars, pmVars>>

(* ------------------------------------------------------------------ *)
(* Tasks                                                                *)
(* ------------------------------------------------------------------ *)
HttpTasks == {<<"http", i>> : i \in 1..NumTasks}
\* Per upgrade request: the HandleWebSocket call and the two pumps.
WsTasks == {<<"ws", c>> : c \in Conns}
RdTasks == {<<"rd", c>> : c \in Conns}
WrTasks == {<<"wr", c>> : c \in Conns}
\* The two goroutines of startCleanupRoutines.
RoomSweeper == <<"roomSweeper", 0>>
PlayerSweeper == <<"playerSweeper", 0>>
\* The goroutine of initAsyncWorker.
DbWorker == <<"dbWorker", 0>>
Tasks ==
  HttpTasks \cup WsTasks \cup RdTasks \cup WrTasks \cup {RoomSweeper, PlayerSweeper, DbWorker}

\* rm.mu, rm.playerMu, rm.stats.mu and the mu of a room.  No function holds
\* the locks of two rooms at a time, so that one room stands for all.
Locks == {"rm.mu", "rm.playerMu", "rm.stats.mu", "room.mu"}
NoTask == <<"", 0>>
\* Every RWMutex unlocked.
FreeMu == [l \in Locks |-> [writer |-> NoTask, readers |-> {}]]

\* An inbound frame: its type, its target_player_id, and whether its text
\* passes the length and content checks.
NoFrame ==
  [type |-> "", target |-> NoPlayer, valid |-> FALSE, position |-> NilPosition,
   player_id |-> NoPlayer]

\* A task that runs nothing.  p: the player id argument (c.playerID for a
\* connection's tasks); r: the room id argument; rid: the roomID local of
\* the registry function being run; h: the room pointer held; q: the
\* argument of GetPlayer; player: whether GetPlayer found a record;
\* m: the inbound frame being handled; conn: what getConnection found for
\* the target of a private message; ret: the result of the finished call;
\* op: the registry function a request called; at: a time.Now() read into a
\* local; roomsToDelete, playersToRemove: the lists of the sweepers; left:
\* the index entries the loop of cleanupInactivePlayers has yet to visit;
\* body: the room_id of the body of a join-specific-room request; todo: the
\* lock and unlock calls the task has yet to make, when they are followed.
Idle == [pc |-> "idle", k |-> "", p |-> NoPlayer, r |-> NoRoomID,
         rid |-> NoRoomID, h |-> NilRoom, q |-> NoPlayer, player |-> FALSE,
         m |-> NoFrame, conn |-> NoConn, ret |-> "", op |-> "", at |-> 0,
         roomsToDelete |-> {}, playersToRemove |-> {}, left |-> {}, body |-> NoText,
         todo |-> <<>>]

\* No Player record, and the record addPlayerToRoom makes at the time at.
NoRec == [IsActive |-> FALSE, LastSeen |-> 0, Position |-> Origin]
NewPlayer(at) == [IsActive |-> TRUE, LastSeen |-> at, Position |-> Origin]

\* now.Sub(t) in seconds, for a local now read at the tick at.
Sub(at, t) == (at - t) * TickSeconds

\* rm.playerMu is free for a writer: the loop of cleanupInactivePlayers,
\* which holds the read lock from its first to its last entry, is not running.
playerMuFree == thr[PlayerSweeper].pc # "cip1"

\* rm.getPlayerRoomID
getPlayerRoomID(p) == playerToRoom[p]

\* rm.getRoomByID
getRoomByID(id) == IF id \in RoomIDs THEN rooms[id] ELSE NilRoom

\* What a caller can tell of the registry: for every room id whether rm.rooms
\* has it, with its members and its LastActivity, and the index.
Registry ==
  [rooms |-> [id \in RoomIDs |->
                IF rooms[id] = NilRoom
                THEN [exists |-> FALSE, members |-> {}, lastActivity |-> 0]
                ELSE [exists |-> TRUE, members |-> roomPlayers[rooms[id]],
                      lastActivity |-> lastActivity[rooms[id]]]],
   index |-> playerToRoom]

\* The registry seen after n calls, the last of which was the call s, and
\* the registry seen before that call.
Seen(n, s, before) ==
  [n |-> n, op |-> s.op, p |-> s.p, r |-> s.r, ret |-> s.ret, reg |-> Registry,
   before |-> before]

\* The caller's next position once the call it made has returned.
Finish(s, result) == [s EXCEPT !.pc = "ret", !.k = "", !.rid = NoRoomID, !.ret = result]

(* ------------------------------------------------------------------ *)
(* RemovePlayerOptimized                                                *)
(* ------------------------------------------------------------------ *)
\* The same when every caller is taken for AddPlayer.
AfterRemoveAsAddPlayer(s) == [s EXCEPT !.pc = "Add1", !.k = "", !.r = MainRoomID]

\* Where the caller of RemovePlayerOptimized goes on.
AfterRemove(s) ==
  CASE s.k = "AddPlayer" -> [s EXCEPT !.pc = "Add1", !.k = "", !.r = MainRoomID]
    [] s.k = "Specific"  -> [s EXCEPT !.pc = "Spec3", !.k = ""]
    [] s.k = "leave"     -> [s EXCEPT !.pc = "leave", !.k = ""]
    [] s.k = "sweep"     -> [s EXCEPT !.pc = "cip2", !.k = "", !.p = NoPlayer]
    [] OTHER             -> Finish(s, "removed")

\* roomID := getPlayerRoomID(playerID); return when it is empty.
RemovePlayerOptimized1(t) ==
  /\ thr[t].pc = "Rem1"
  /\ LET roomID == getPlayerRoomID(thr[t].p) IN
       thr' = [thr EXCEPT ![t] =
                 IF roomID = NoRoomID THEN AfterRemove(thr[t])
                 ELSE [thr[t] EXCEPT !.pc = "Rem2", !.rid = roomID]]
  /\ UNCHANGED regVars

\* room := getRoomByID(roomID)
RemovePlayerOptimized2(t) ==
  /\ thr[t].pc = "Rem2"
  /\ LET room == getRoomByID(thr[t].rid) IN
       thr' = [thr EXCEPT ![t] =
                 [thr[t] EXCEPT !.pc = IF room = NilRoom THEN "Rem4" ELSE "Rem3",
                                !.h = room]]
  /\ UNCHANGED regVars

\* Under room.mu: delete the player from room.Players when it is there.
RemovePlayerOptimized3(t) ==
  /\ thr[t].pc = "Rem3"
  /\ IF thr[t].p \in roomPlayers[thr[t].h]
     THEN /\ roomPlayers' = [roomPlayers EXCEPT ![thr[t].h] = @ \ {thr[t].p}]
          /\ playerRec' = [playerRec EXCEPT ![thr[t].h][thr[t].p] = NoRec]
          /\ lastActivity' = [lastActivity EXCEPT ![thr[t].h] = now]
     ELSE UNCHANGED <<roomPlayers, playerRec, lastActivity>>
  /\ thr' = [thr EXCEPT ![t].pc = "Rem4"]
  /\ UNCHANGED <<rooms, nextRoom, playerToRoom, prior>>

\* The same step when the index entry is left in place.
RemovePlayerOptimized4KeepIndex(t) ==
  /\ thr[t].pc = "Rem4"
  /\ thr' = [thr EXCEPT ![t] = AfterRemove([thr[t] EXCEPT !.rid = NoRoomID, !.h = NilRoom])]
  /\ UNCHANGED regVars

\* Under rm.playerMu: delete the index entry (also the stale-mapping branch).
RemovePlayerOptimized4(t) ==
  /\ thr[t].pc = "Rem4"
  /\ playerMuFree
  /\ playerToRoom' = [playerToRoom EXCEPT ![thr[t].p] = NoRoomID]
  /\ thr' = [thr EXCEPT ![t] = AfterRemove([thr[t] EXCEPT !.rid = NoRoomID, !.h = NilRoom])]
  /\ UNCHANGED <<rooms, roomPlayers, nextRoom, lastActivity, playerRec, prior>>

(* ------------------------------------------------------------------ *)
(* addPlayerToRoom                                                      *)
(* ------------------------------------------------------------------ *)
\* room := getRoomByID(roomID); "room not found" when nil.
addPlayerToRoom1(t) ==
  /\ thr[t].pc = "Add1"
  /\ LET room == getRoomByID(thr[t].r) IN
       thr' = [thr EXCEPT ![t] =
                 IF room = NilRoom THEN Finish(thr[t], "notfound")
                 ELSE [thr[t] EXCEPT !.pc = "Add2", !.h = room]]
  /\ UNCHANGED regVars

\* The same test when no room ever counts as full.
roomIsFullNever(room) == FALSE

\* len(room.Players) >= MaxPlayersPerRoom
roomIsFull(room) == Cardinality(roomPlayers[room]) >= MaxPlayersPerRoom

\* Under room.mu.RLock: the optimistic capacity check; then the Player is
\* made, LastSeen: time.Now().
addPlayerToRoom2(t) ==
  /\ thr[t].pc = "Add2"
  /\ thr' = [thr EXCEPT ![t] =
               IF roomIsFull(thr[t].h)
               THEN Finish([thr[t] EXCEPT !.h = NilRoom], "full")
               ELSE [thr[t] EXCEPT !.pc = "Add3", !.at = now]]
  /\ UNCHANGED regVars

\* The same step without the second capacity check.
addPlayerToRoom3NoRecheck(t) ==
  /\ thr[t].pc = "Add3"
  /\ roomPlayers' = [roomPlayers EXCEPT ![thr[t].h] = @ \cup {thr[t].p}]
  /\ playerRec' = [playerRec EXCEPT ![thr[t].h][thr[t].p] = NewPlayer(thr[t].at)]
  /\ lastActivity' = [lastActivity EXCEPT ![thr[t].h] = now]
  /\ thr' = [thr EXCEPT ![t] = [thr[t] EXCEPT !.pc = "Add4", !.at = 0]]
  /\ UNCHANGED <<rooms, nextRoom, playerToRoom, prior>>

\* Under room.mu.Lock: the second capacity check, then room.Players[playerID] = player.
addPlayerToRoom3(t) ==
  /\ thr[t].pc = "Add3"
  /\ IF roomIsFull(thr[t].h)
     THEN /\ thr' = [thr EXCEPT ![t] = Finish([thr[t] EXCEPT !.h = NilRoom, !.at = 0], "full")]
          /\ UNCHANGED regVars
     ELSE /\ roomPlayers' = [roomPlayers EXCEPT ![thr[t].h] = @ \cup {thr[t].p}]
          /\ playerRec' = [playerRec EXCEPT ![thr[t].h][thr[t].p] = NewPlayer(thr[t].at)]
          /\ lastActivity' = [lastActivity EXCEPT ![thr[t].h] = now]
          /\ thr' = [thr EXCEPT ![t] = [thr[t] EXCEPT !.pc = "Add4", !.at = 0]]
          /\ UNCHANGED <<rooms, nextRoom, playerToRoom, prior>>

\* Under rm.playerMu: playerToRoom[playerID] = roomID; return room, nil.
addPlayerToRoom4(t) ==
  /\ thr[t].pc = "Add4"
  /\ playerMuFree
  /\ playerToRoom' = [playerToRoom EXCEPT ![thr[t].p] = thr[t].r]
  /\ thr' = [thr EXCEPT ![t] = Finish(thr[t], "ok")]
  /\ UNCHANGED <<rooms, roomPlayers, nextRoom, lastActivity, playerRec, prior>>

(* ------------------------------------------------------------------ *)
(* AddPlayer                                                            *)
(* ------------------------------------------------------------------ *)
\* A join-room request for player p arrives.
CallAddPlayer(t, p) ==
  /\ thr[t].pc = "idle"
  /\ calls < MaxCalls
  /\ calls' = calls + 1
  /\ thr' = [thr EXCEPT ![t] = [Idle EXCEPT !.pc = "AddPlayer", !.p = p, !.op = "AddPlayer"]]
  /\ UNCHANGED <<regVars, dbOperations, mu>>

\* The same step when a player found in the main room is removed from it.
AddPlayerRemoves(t) ==
  /\ thr[t].pc = "AddPlayer"
  /\ LET existingRoomID == getPlayerRoomID(thr[t].p) IN
       thr' = [thr EXCEPT ![t] =
                 IF existingRoomID = NoRoomID
                 THEN [thr[t] EXCEPT !.pc = "Add1", !.r = MainRoomID]
                 ELSE [thr[t] EXCEPT !.pc = "Rem1",
                                     !.k = IF existingRoomID = MainRoomID
                                           THEN "RemovePlayer" ELSE "AddPlayer"]]
  /\ UNCHANGED regVars

\* The fast path: existingRoomID := getPlayerRoomID(playerID).
AddPlayer(t) ==
  /\ thr[t].pc = "AddPlayer"
  /\ LET existingRoomID == getPlayerRoomID(thr[t].p) IN
       thr' = [thr EXCEPT ![t] =
                 IF existingRoomID = NoRoomID
                 THEN [thr[t] EXCEPT !.pc = "Add1", !.r = MainRoomID]
                 ELSE IF existingRoomID = MainRoomID
                 THEN Finish([thr[t] EXCEPT !.r = MainRoomID, !.h = mainRoom], "ok")
                 ELSE [thr[t] EXCEPT !.pc = "Rem1", !.k = "AddPlayer"]]
  /\ UNCHANGED regVars

(* ------------------------------------------------------------------ *)
(* AddPlayerToSpecificRoom                                              *)
(* ------------------------------------------------------------------ *)
\* A join-specific-room request for player p and room id r arrives.
CallAddPlayerToSpecificRoom(t, p, r) ==
  /\ thr[t].pc = "idle"
  /\ calls < MaxCalls
  /\ calls' = calls + 1
  /\ thr' = [thr EXCEPT ![t] = [Idle EXCEPT !.pc = "Spec1", !.p = p, !.r = r,
                                            !.op = "AddPlayerToSpecificRoom"]]
  /\ UNCHANGED <<regVars, dbOperations, mu>>

\* The room ids of the request bodies: empty, short, and around the limit,
\* all ASCII or with one character outside ASCII.
RoomIDTexts ==
  {x \in [chars : {0, 1, 9, 10, 11}, wide : {0, 1}] : x.wide <= x.chars}

\* Go's len of a string counts the bytes of its UTF-8 encoding: one for an
\* ASCII character, at least two for any other.
len(s) == (s.chars - s.wide) + 2 * s.wide

\* handleJoinSpecificRoom: a body whose room_id is empty or has len > 10 is
\* answered 400; otherwise AddPlayerToSpecificRoom is called for the room r
\* that the room_id names.
handleJoinSpecificRoom(t, p, r, body) ==
  /\ thr[t].pc = "idle"
  /\ calls < MaxCalls
  /\ calls' = calls + 1
  /\ thr' = [thr EXCEPT ![t] =
               IF body = NoText \/ len(body) > MaxRoomIDLen
               THEN Finish([Idle EXCEPT !.body = body], "400")
               ELSE [Idle EXCEPT !.pc = "Spec1", !.p = p, !.r = r,
                                 !.op = "AddPlayerToSpecificRoom", !.body = body]]
  /\ UNCHANGED <<regVars, dbOperations, mu>>

\* The fast path: getPlayerRoomID(playerID) == roomID.
AddPlayerToSpecificRoom1(t) ==
  /\ thr[t].pc = "Spec1"
  /\ thr' = [thr EXCEPT ![t].pc =
               IF getPlayerRoomID(thr[t].p) = thr[t].r THEN "Spec1b" ELSE "Spec2"]
  /\ UNCHANGED regVars

\* return rm.getRoomByID(roomID), nil
AddPlayerToSpecificRoom1b(t) ==
  /\ thr[t].pc = "Spec1b"
  /\ thr' = [thr EXCEPT ![t] = Finish([thr[t] EXCEPT !.h = getRoomByID(thr[t].r)], "ok")]
  /\ UNCHANGED regVars

\* The same step when the player is left in its current room until the
\* admission has succeeded.
AddPlayerToSpecificRoom2Keep(t) ==
  /\ thr[t].pc = "Spec2"
  /\ thr' = [thr EXCEPT ![t] = [thr[t] EXCEPT !.pc = "Spec3"]]
  /\ UNCHANGED regVars

\* The second read of the index: remove from the current room if there is one.
AddPlayerToSpecificRoom2(t) ==
  /\ thr[t].pc = "Spec2"
  /\ thr' = [thr EXCEPT ![t] =
               IF getPlayerRoomID(thr[t].p) # NoRoomID
               THEN [thr[t] EXCEPT !.pc = "Rem1", !.k = "Specific"]
               ELSE [thr[t] EXCEPT !.pc = "Spec3"]]
  /\ UNCHANGED regVars

\* Under rm.mu.Lock: create the room when rm.rooms has none of that id.
AddPlayerToSpecificRoom3(t) ==
  /\ thr[t].pc = "Spec3"
  /\ IF rooms[thr[t].r] # NilRoom
     THEN UNCHANGED regVars
     ELSE /\ nextRoom < MaxRoomObjs
          /\ rooms' = [rooms EXCEPT ![thr[t].r] = nextRoom + 1]
          /\ roomPlayers' = [roomPlayers EXCEPT ![nextRoom + 1] = {}]
          /\ lastActivity' = [lastActivity EXCEPT ![nextRoom + 1] = now]
          /\ nextRoom' = nextRoom + 1
          /\ UNCHANGED <<playerToRoom, playerRec, prior>>
  /\ thr' = [thr EXCEPT ![t].pc = "Add1"]

(* ------------------------------------------------------------------ *)
(* RemovePlayer (the leave-room request)                                *)
(* ------------------------------------------------------------------ *)
CallRemovePlayer(t, p) ==
  /\ thr[t].pc = "idle"
  /\ calls < MaxCalls
  /\ calls' = calls + 1
  /\ thr' = [thr EXCEPT ![t] = [Idle EXCEPT !.pc = "Rem1", !.p = p, !.k = "RemovePlayer",
                                            !.op = "RemovePlayer"]]
  /\ UNCHANGED <<regVars, dbOperations, mu>>

\* make(chan func(), 1000)
DbQueueCap == 1000

\* dbOperations before initAsyncWorker has run: a nil channel.
NilChan == [made |-> FALSE, buf |-> <<>>]

\* An UpdateLastRoomAsync on a channel without a capacity.
UpdateLastRoomUnbounded(userID, roomID) ==
  IF dbOperations.made
  THEN [dbOperations EXCEPT !.buf = Append(@, [userID |-> userID, roomID |-> roomID])]
  ELSE dbOperations

\* UpdateLastRoomAsync: select { case dbOperations <- operation: default: }.
\* The send is taken when the channel was made and has room; a nil channel
\* is never ready, and the default case drops the operation.
UpdateLastRoomAsync(userID, roomID) ==
  IF dbOperations.made /\ Len(dbOperations.buf) < DbQueueCap
  THEN [dbOperations EXCEPT !.buf = Append(@, [userID |-> userID, roomID |-> roomID])]
  ELSE dbOperations


\* What handleJoinRoom and handleJoinSpecificRoom do with the result of the
\* registry: config.UpdateLastRoomAsync(playerID, room.ID) when err is nil.
AfterJoin(s) ==
  IF s.op \in {"AddPlayer", "AddPlayerToSpecificRoom"} /\ s.ret = "ok"
  THEN UpdateLastRoomAsync(s.p, s.r)
  ELSE dbOperations

\* The request's handler has its answer and ends.
Return(t) ==
  /\ thr[t].pc = "ret"
  /\ dbOperations' = AfterJoin(thr[t])
  /\ thr' = [thr EXCEPT ![t] = Idle]
  /\ UNCHANGED <<regVars, calls, mu>>

\* The request's handler ends and its caller looks at the registry before it
\* sends the next request.
ReturnRecorded(t) ==
  /\ thr[t].pc = "ret"
  /\ prior' = Seen(calls, thr[t], prior.reg)
  /\ dbOperations' = AfterJoin(thr[t])
  /\ thr' = [thr EXCEPT ![t] = Idle]
  /\ UNCHANGED <<rooms, roomPlayers, nextRoom, playerToRoom, lastActivity, playerRec, calls, mu>>

(* ------------------------------------------------------------------ *)
(* Frames and channels                                                  *)
(* ------------------------------------------------------------------ *)
\* An outbound WebSocketMessage: type, player_id, target_player_id; for a
\* batch, the player ids of the messages it carries.
Msg(type, pid, target) ==
  [type |-> type, player_id |-> pid, target_player_id |-> target, messages |-> {},
   position |-> IF type = "position_update" THEN Origin ELSE NilPosition]

\* The BatchedMessage sendBatchedMessages builds from one player_joined per id.
Batch(ids) ==
  [type |-> "batch", player_id |-> NoPlayer, target_player_id |-> NoPlayer,
   messages |-> ids, position |-> NilPosition]

\* A send that waits for room in the channel instead of dropping the frame.
OfferUnbounded(ch, frame) == Append(ch, frame)

\* select { case c.send <- data: default: }: the frame is dropped when the
\* channel is full.
Offer(ch, frame) == IF Len(ch) < SendCap THEN Append(ch, frame) ELSE ch

\* go broadcastToRoomAsync(room, excludePlayerID, message)
NewBroadcast(room, exclude, message) ==
  [room |-> room, exclude |-> exclude, msg |-> message, collected |-> FALSE,
   targets |-> {}]

Spawn(b) == bcasts (+) SetToBag({b})

(* ------------------------------------------------------------------ *)
(* GetPlayer and GetPlayerRoom                                          *)
(* ------------------------------------------------------------------ *)
\* Where the caller of GetPlayer goes on.
AfterGetPlayer(s) ==
  CASE s.k = "ws" -> IF s.player
                     THEN [s EXCEPT !.pc = "gr1", !.rid = NoRoomID, !.h = NilRoom]
                     ELSE [s EXCEPT !.pc = "wsClose", !.k = "", !.rid = NoRoomID, !.h = NilRoom]
    [] OTHER      -> [s EXCEPT !.pc = IF s.player THEN "pmSend" ELSE "pmErr",
                               !.k = "", !.rid = NoRoomID, !.h = NilRoom,
                               !.player = FALSE]

\* roomID := getPlayerRoomID(playerID); nil when it is empty.
GetPlayer1(t) ==
  /\ thr[t].pc = "gp1"
  /\ LET roomID == getPlayerRoomID(thr[t].q) IN
       thr' = [thr EXCEPT ![t] =
                 IF roomID = NoRoomID THEN AfterGetPlayer([thr[t] EXCEPT !.player = FALSE])
                 ELSE [thr[t] EXCEPT !.pc = "gp2", !.rid = roomID]]
  /\ UNCHANGED regVars

\* room := getRoomByID(roomID)
GetPlayer2(t) ==
  /\ thr[t].pc = "gp2"
  /\ LET room == getRoomByID(thr[t].rid) IN
       thr' = [thr EXCEPT ![t] =
                 [thr[t] EXCEPT !.pc = IF room = NilRoom THEN "gp2b" ELSE "gp3",
                                !.h = room]]
  /\ UNCHANGED regVars

\* room == nil: delete the stale mapping under rm.playerMu and return nil.
GetPlayer2b(t) ==
  /\ thr[t].pc = "gp2b"
  /\ playerMuFree
  /\ playerToRoom' = [playerToRoom EXCEPT ![thr[t].q] = NoRoomID]
  /\ thr' = [thr EXCEPT ![t] = AfterGetPlayer([thr[t] EXCEPT !.player = FALSE])]
  /\ UNCHANGED <<rooms, roomPlayers, nextRoom, lastActivity, playerRec, prior>>

\* Under room.mu.RLock: return room.Players[playerID].
GetPlayer3(t) ==
  /\ thr[t].pc = "gp3"
  /\ thr' = [thr EXCEPT ![t] =
               AfterGetPlayer([thr[t] EXCEPT !.player = (thr[t].q \in roomPlayers[thr[t].h])])]
  /\ UNCHANGED regVars

\* Where the caller of GetPlayerRoom goes on; s.h is the room returned.
AfterGetPlayerRoom(s) ==
  LET u == [s EXCEPT !.k = "", !.rid = NoRoomID] IN
  CASE s.k = "ws"   -> [u EXCEPT !.pc = IF s.h = NilRoom THEN "wsClose" ELSE "wsAdd"]
    [] s.k = "pos"  -> IF s.h = NilRoom THEN [u EXCEPT !.pc = "read", !.m = NoFrame]
                       ELSE [u EXCEPT !.pc = "pos"]
    [] s.k = "chat" -> IF s.h = NilRoom THEN [u EXCEPT !.pc = "read", !.m = NoFrame]
                       ELSE [u EXCEPT !.pc = "chat"]
    [] OTHER        -> [u EXCEPT !.pc = IF s.h = NilRoom THEN "rdExit" ELSE "disc"]

\* roomID := getPlayerRoomID(playerID); nil when it is empty.
GetPlayerRoom1(t) ==
  /\ thr[t].pc = "gr1"
  /\ LET roomID == getPlayerRoomID(thr[t].p) IN
       thr' = [thr EXCEPT ![t] =
                 IF roomID = NoRoomID THEN AfterGetPlayerRoom([thr[t] EXCEPT !.h = NilRoom])
                 ELSE [thr[t] EXCEPT !.pc = "gr2", !.rid = roomID]]
  /\ UNCHANGED regVars

\* return rm.getRoomByID(roomID)
GetPlayerRoom2(t) ==
  /\ thr[t].pc = "gr2"
  /\ thr' = [thr EXCEPT ![t] =
               AfterGetPlayerRoom([thr[t] EXCEPT !.h = getRoomByID(thr[t].rid)])]
  /\ UNCHANGED regVars

(* ------------------------------------------------------------------ *)
(* ConnectionPool                                                       *)
(* ------------------------------------------------------------------ *)
\* cp.count < MaxConcurrentConnections, under cp.mu.RLock
canAcceptConnection == count < MaxConcurrentConnections

\* The pool's map without the entry for p.
Without(cp, p) == [x \in DOMAIN cp \ {p} |-> cp[x]]

\* The pool's map with p bound to c.
With(cp, p, c) == [x \in DOMAIN cp \cup {p} |-> IF x = p THEN c ELSE cp[x]]

\* The contexts after conn.cancel() for the connection c.
Cancel(done, c) == IF c \in AllConns THEN [done EXCEPT ![c] = TRUE] ELSE done

\* addConnection that leaves the earlier connection of the player running.
addConnectionNoCancel(p, c) ==
  /\ pool' = With(pool, p, c)
  /\ count' = IF p \in DOMAIN pool THEN count ELSE count + 1
  /\ UNCHANGED ctxDone

\* cp.addConnection: cancel and drop the player's earlier connection, then
\* register the new one.
addConnection(p, c) ==
  /\ pool' = With(pool, p, c)
  /\ count' = IF p \in DOMAIN pool THEN (count - 1) + 1 ELSE count + 1
  /\ ctxDone' = IF p \in DOMAIN pool THEN Cancel(ctxDone, pool[p]) ELSE ctxDone

\* A removeConnection that counts down whether or not the pool holds a
\* connection for the player id.
removeConnectionUnchecked(p) ==
  /\ ctxDone' = IF p \in DOMAIN pool THEN Cancel(ctxDone, pool[p]) ELSE ctxDone
  /\ pool' = Without(pool, p)
  /\ count' = count - 1

\* cp.removeConnection: cancel and drop whatever connection the pool holds
\* for the player id.
removeConnection(p) ==
  IF p \in DOMAIN pool
  THEN /\ ctxDone' = Cancel(ctxDone, pool[p])
       /\ pool' = Without(pool, p)
       /\ count' = count - 1
  ELSE UNCHANGED <<ctxDone, pool, count>>

(* ------------------------------------------------------------------ *)
(* HandleWebSocket                                                      *)
(* ------------------------------------------------------------------ *)
\* An upgrade request with the given token arrives; an empty token is
\* answered 401.
CallHandleWebSocket(c, token) ==
  /\ c = nextConn + 1
  /\ thr[<<"ws", c>>].pc = "idle"
  /\ nextConn' = c
  /\ thr' = [thr EXCEPT ![<<"ws", c>>] =
               IF token = NoPlayer THEN Finish(Idle, "401")
               ELSE [Idle EXCEPT !.pc = "wsAccept", !.p = token]]
  /\ UNCHANGED <<regVars, calls, dbOperations, mu, poolVars, connection, ctxDone, ws, send, events, bcasts, drops, preempted>>

\* A HandleWebSocket without the connection limit.
HandleWebSocketAcceptAll(c) ==
  LET t == <<"ws", c>> IN
  /\ thr[t].pc = "wsAccept"
  /\ thr' = [thr EXCEPT ![t] = [thr[t] EXCEPT !.pc = "wsUpgrade"]]
  /\ UNCHANGED <<regVars, calls, dbOperations, mu, poolVars, connVars>>

\* The connection limit: 503 when the pool cannot accept.
HandleWebSocketAccept(c) ==
  LET t == <<"ws", c>> IN
  /\ thr[t].pc = "wsAccept"
  /\ thr' = [thr EXCEPT ![t] =
               IF canAcceptConnection THEN [thr[t] EXCEPT !.pc = "wsUpgrade"]
               ELSE Finish(thr[t], "503")]
  /\ UNCHANGED <<regVars, calls, dbOperations, mu, poolVars, connVars>>

\* upgrader.Upgrade: the transport opens, or the handshake fails; then GetPlayer.
HandleWebSocketUpgrade(c, ok) ==
  LET t == <<"ws", c>> IN
  /\ thr[t].pc = "wsUpgrade"
  /\ IF ok
     THEN /\ ws' = [ws EXCEPT ![c] = "open"]
          /\ thr' = [thr EXCEPT ![t] = [thr[t] EXCEPT !.pc = "gp1", !.k = "ws", !.q = thr[t].p]]
     ELSE /\ thr' = [thr EXCEPT ![t] = Finish(thr[t], "upgrade failed")]
          /\ UNCHANGED ws
  /\ UNCHANGED <<regVars, calls, dbOperations, mu, poolVars, nextConn, connection, ctxDone, send, events, bcasts, drops, preempted>>

\* Player or room not found: conn.Close() and return.
HandleWebSocketClose(c) ==
  LET t == <<"ws", c>> IN
  /\ thr[t].pc = "wsClose"
  /\ ws' = [ws EXCEPT ![c] = "closed"]
  /\ thr' = [thr EXCEPT ![t] = Finish(thr[t], "closed")]
  /\ UNCHANGED <<regVars, calls, dbOperations, mu, poolVars, nextConn, connection, ctxDone, send, events, bcasts, drops, preempted>>

\* Make the Connection and register it: connectionPool.addConnection.
HandleWebSocketAdd(c) ==
  LET t == <<"ws", c>> IN
  /\ thr[t].pc = "wsAdd"
  /\ connection' = [connection EXCEPT ![c] = [playerID |-> thr[t].p, room |-> thr[t].h]]
  /\ addConnection(thr[t].p, c)
  /\ preempted' = IF thr[t].p \in DOMAIN pool /\ pool[thr[t].p] \in AllConns
                  THEN preempted \cup {pool[thr[t].p]} ELSE preempted
  /\ thr' = [thr EXCEPT ![t].pc = "wsMark"]
  /\ UNCHANGED <<regVars, calls, dbOperations, mu, nextConn, ws, send, events, bcasts, drops>>

\* Under room.mu.Lock: player.WS, player.IsActive and player.LastSeen are set.
\* player is the record GetPlayer returned; a record that has left the map
\* since is written too, with no effect on the registry.
HandleWebSocketMark(c) ==
  LET t == <<"ws", c>> IN
  /\ thr[t].pc = "wsMark"
  /\ playerRec' = IF thr[t].p \in roomPlayers[thr[t].h]
                  THEN [playerRec EXCEPT ![thr[t].h][thr[t].p].IsActive = TRUE,
                                         ![thr[t].h][thr[t].p].LastSeen = now]
                  ELSE playerRec
  /\ thr' = [thr EXCEPT ![t].pc = "wsInit"]
  /\ UNCHANGED <<rooms, roomPlayers, nextRoom, playerToRoom, lastActivity, prior,
                 calls, dbOperations, mu, poolVars, connVars>>

\* An initial room state that lists the newcomer too.
sendInitialRoomStateAll(room, playerID) == roomPlayers[room]

\* The members sendInitialRoomState builds a player_joined message for.
sendInitialRoomStateOthers(room, playerID) == roomPlayers[room] \ {playerID}

\* connection.sendInitialRoomState under room.mu.RLock, then the start of the
\* pumps.  Reading room.Players[playerID] of a player that is not in the
\* room panics: the deferred calls run and the pumps are never started.
HandleWebSocketInit(c) ==
  LET t == <<"ws", c>>
      room == thr[t].h
      playerID == thr[t].p
      others == sendInitialRoomStateOthers(room, playerID)
  IN
  /\ thr[t].pc = "wsInit"
  /\ send' = [send EXCEPT ![c] = IF others # {} THEN Offer(@, Batch(others)) ELSE @]
  /\ drops' = [drops EXCEPT ![c] = IF others # {} /\ send'[c] = send[c] THEN @ + 1 ELSE @]
  /\ IF playerID \in roomPlayers[room]
     THEN /\ bcasts' = Spawn(NewBroadcast(room, playerID, Msg("player_joined", playerID, NoPlayer)))
          /\ thr' = [thr EXCEPT ![t].pc = "wsWait",
                                ![<<"wr", c>>] = [Idle EXCEPT !.pc = "select", !.p = playerID],
                                ![<<"rd", c>>] = [Idle EXCEPT !.pc = "read", !.p = playerID]]
     ELSE /\ thr' = [thr EXCEPT ![t].pc = "wsDefer", ![t].ret = "panic"]
          /\ UNCHANGED bcasts
  /\ UNCHANGED <<regVars, calls, dbOperations, mu, poolVars, nextConn, connection, ctxDone, ws, events, preempted>>

\* <-ctx.Done(), then conn.Close().
HandleWebSocketWait(c) ==
  LET t == <<"ws", c>> IN
  /\ thr[t].pc = "wsWait"
  /\ ctxDone[c]
  /\ ws' = [ws EXCEPT ![c] = "closed"]
  /\ thr' = [thr EXCEPT ![t].pc = "wsDefer"]
  /\ UNCHANGED <<regVars, calls, dbOperations, mu, poolVars, nextConn, connection, ctxDone, send, events, bcasts, drops, preempted>>

\* The deferred connectionPool.removeConnection(playerID).
HandleWebSocketDefer(c) ==
  LET t == <<"ws", c>> IN
  /\ thr[t].pc = "wsDefer"
  /\ removeConnection(thr[t].p)
  /\ thr' = [thr EXCEPT ![t] = Finish(thr[t], IF thr[t].ret = "panic" THEN "panic" ELSE "done")]
  /\ UNCHANGED <<regVars, calls, dbOperations, mu, nextConn, connection, ws, send, events, bcasts, drops, preempted>>

(* ------------------------------------------------------------------ *)
(* writePump                                                            *)
(* ------------------------------------------------------------------ *)
\* The deferred function of writePump: c.ws.Close() and c.cancel().
writePumpExit(c) ==
  /\ ws' = [ws EXCEPT ![c] = "closed"]
  /\ ctxDone' = [ctxDone EXCEPT ![c] = TRUE]
  /\ thr' = [thr EXCEPT ![<<"wr", c>>].pc = "done"]

\* case message := <-c.send: write it; the write fails, and ends the pump,
\* when the transport is down.
writePumpSend(c) ==
  /\ thr[<<"wr", c>>].pc = "select"
  /\ send[c] # <<>>
  /\ send' = [send EXCEPT ![c] = Tail(@)]
  /\ IF ws[c] = "open" THEN UNCHANGED <<ws, ctxDone, thr>> ELSE writePumpExit(c)
  /\ UNCHANGED <<regVars, calls, dbOperations, mu, poolVars, nextConn, connection, events, bcasts, drops, preempted>>

\* case <-ticker.C: the ping fails when the transport is down (a ping that is
\* written changes nothing).
writePumpPing(c) ==
  /\ thr[<<"wr", c>>].pc = "select"
  /\ ws[c] = "closed"
  /\ writePumpExit(c)
  /\ UNCHANGED <<regVars, calls, dbOperations, mu, poolVars, nextConn, connection, send, events, bcasts, drops, preempted>>

\* case <-c.ctx.Done()
writePumpDone(c) ==
  /\ thr[<<"wr", c>>].pc = "select"
  /\ ctxDone[c]
  /\ writePumpExit(c)
  /\ UNCHANGED <<regVars, calls, dbOperations, mu, poolVars, nextConn, connection, send, events, bcasts, drops, preempted>>

(* ------------------------------------------------------------------ *)
(* readPump and handlePlayerAction                                      *)
(* ------------------------------------------------------------------ *)
\* The inbound frames a client sends; its position_update carries the
\* position Origin.
RoomFrames ==
  {[NoFrame EXCEPT !.type = ty,
                   !.position = IF ty = "position_update" THEN Origin ELSE NilPosition] :
     ty \in {"position_update", "leave_room", "chat_message", "other"}}

\* The private_message frames: the target_player_id, and whether the text
\* passes the length and content checks.
PMFrames ==
  {[NoFrame EXCEPT !.type = "private_message", !.target = q, !.valid = TRUE] :
     q \in Actors \cup {101}}
    \cup {[NoFrame EXCEPT !.type = "private_message"]}

\* The frames of a burst: private messages for the filler 101, and one whose
\* text fails the checks.
BurstFrames ==
  {[NoFrame EXCEPT !.type = "private_message", !.target = 101, !.valid = TRUE],
   [NoFrame EXCEPT !.type = "private_message"]}

InFrames == RoomFrames \cup PMFrames

\* position_update frames with a position other than Origin, and one with no
\* position.
MoveFrames ==
  {[NoFrame EXCEPT !.type = "position_update", !.position = pos] : pos \in {NilPosition, 1, 2}}

\* chat_message and private_message frames in which the client has put a
\* player_id of its choice.
ForgedFrames ==
  {[NoFrame EXCEPT !.type = ty, !.target = q, !.valid = TRUE, !.player_id = id] :
     ty \in {"chat_message", "private_message"}, q \in {2, 102},
     id \in Actors \cup {NoPlayer}}

\* The frames a client of the position scenario sends.
MovedOrForged == MoveFrames \cup ForgedFrames

\* handlePlayerAction: where the read pump goes for the frame it has read.
\* A position_update without a position is ignored.
handlePlayerAction(s, m) ==
  CASE m.type = "position_update" -> IF m.position = NilPosition THEN s
                                     ELSE [s EXCEPT !.pc = "gr1", !.k = "pos", !.m = m]
    [] m.type = "leave_room"      -> [s EXCEPT !.pc = "Rem1", !.k = "leave"]
    [] m.type = "chat_message"    -> [s EXCEPT !.pc = "gr1", !.k = "chat", !.m = m]
    [] m.type = "private_message" -> [s EXCEPT !.pc = "pm", !.m = m]
    [] OTHER                      -> s

\* c.ws.ReadJSON returns a frame.
readPumpFrame(c, m) ==
  LET t == <<"rd", c>> IN
  /\ thr[t].pc = "read"
  /\ ws[c] = "open"
  /\ events < MaxEvents
  /\ events' = events + 1
  /\ thr' = [thr EXCEPT ![t] = handlePlayerAction(thr[t], m)]
  /\ UNCHANGED <<regVars, calls, dbOperations, mu, poolVars, nextConn, connection, ctxDone, ws, send, bcasts, drops, preempted>>

\* c.ws.ReadJSON returns one private_message frame of a burst.
readPumpBurst(c, m) ==
  LET t == <<"rd", c>> IN
  /\ thr[t].pc = "read"
  /\ ws[c] = "open"
  /\ events < PMBurst
  /\ events' = events + 1
  /\ thr' = [thr EXCEPT ![t] = handlePlayerAction(thr[t], m)]
  /\ UNCHANGED <<regVars, calls, dbOperations, mu, poolVars, nextConn, connection, ctxDone, ws, send, bcasts, drops, preempted>>

\* The peer closes, the network fails, a deadline passes or a frame that is
\* not JSON arrives: the transport is down from here on.
ClientClose(c) ==
  /\ ws[c] = "open"
  /\ events < MaxEvents
  /\ events' = events + 1
  /\ ws' = [ws EXCEPT ![c] = "closed"]
  /\ UNCHANGED <<regVars, thr, calls, dbOperations, mu, poolVars, nextConn, connection, ctxDone, send, bcasts, drops, preempted>>

\* A read pump that stays in its loop on a read error.
readPumpErrorRetry(c) ==
  /\ thr[<<"rd", c>>].pc = "read"
  /\ ws[c] = "closed"
  /\ UNCHANGED vars

\* c.ws.ReadJSON returns an error (the transport is down, by the peer or by a
\* Close here): leave the loop and run handleDisconnect.  at keeps the time
\* of the error.
readPumpError(c) ==
  LET t == <<"rd", c>> IN
  /\ thr[t].pc = "read"
  /\ ws[c] = "closed"
  /\ thr' = [thr EXCEPT ![t] = [thr[t] EXCEPT !.pc = "gr1", !.k = "disc", !.at = now]]
  /\ UNCHANGED <<regVars, calls, dbOperations, mu, poolVars, connVars>>

\* A handlePositionUpdateOptimized that broadcasts the position and does not
\* store it.
handlePositionUpdateUnstored(c) ==
  LET t == <<"rd", c>> IN
  /\ thr[t].pc = "pos"
  /\ bcasts' = IF thr[t].p \in roomPlayers[thr[t].h]
               THEN Spawn(NewBroadcast(thr[t].h, thr[t].p,
                                       [Msg("position_update", thr[t].p, NoPlayer)
                                          EXCEPT !.position = thr[t].m.position]))
               ELSE bcasts
  /\ thr' = [thr EXCEPT ![t] = [thr[t] EXCEPT !.pc = "read", !.h = NilRoom, !.m = NoFrame]]
  /\ UNCHANGED <<regVars, calls, dbOperations, mu, poolVars, nextConn, connection, ctxDone, ws, send,
                 events, drops, preempted>>

\* handlePositionUpdateOptimized under room.mu.Lock: store the position of a
\* player that is in the room, its LastSeen and the room's LastActivity, then
\* go broadcastToRoomAsync.
handlePositionUpdateOptimized(c) ==
  LET t == <<"rd", c>> IN
  /\ thr[t].pc = "pos"
  /\ bcasts' = IF thr[t].p \in roomPlayers[thr[t].h]
               THEN Spawn(NewBroadcast(thr[t].h, thr[t].p,
                                       [Msg("position_update", thr[t].p, NoPlayer)
                                          EXCEPT !.position = thr[t].m.position]))
               ELSE bcasts
  /\ IF thr[t].p \in roomPlayers[thr[t].h]
     THEN /\ playerRec' = [playerRec EXCEPT ![thr[t].h][thr[t].p].LastSeen = now,
                                            ![thr[t].h][thr[t].p].Position = thr[t].m.position]
          /\ lastActivity' = [lastActivity EXCEPT ![thr[t].h] = now]
     ELSE UNCHANGED <<playerRec, lastActivity>>
  /\ thr' = [thr EXCEPT ![t] = [thr[t] EXCEPT !.pc = "read", !.h = NilRoom, !.m = NoFrame]]
  /\ UNCHANGED <<rooms, roomPlayers, nextRoom, playerToRoom, prior, calls, dbOperations, mu, poolVars,
                 nextConn, connection, ctxDone, ws, send, events, drops, preempted>>

\* A handleChatMessage that takes the sender from the frame.
handleChatMessageTrusting(c) ==
  LET t == <<"rd", c>> IN
  /\ thr[t].pc = "chat"
  /\ bcasts' = Spawn(NewBroadcast(thr[t].h, thr[t].p,
                                  Msg("chat_message", thr[t].m.player_id, NoPlayer)))
  /\ thr' = [thr EXCEPT ![t] = [thr[t] EXCEPT !.pc = "read", !.h = NilRoom, !.m = NoFrame]]
  /\ UNCHANGED <<regVars, calls, dbOperations, mu, poolVars, nextConn, connection, ctxDone, ws, send, events, drops, preempted>>

\* handleChatMessage: go broadcastToRoomAsync(room, c.playerID, chatMessage)
handleChatMessage(c) ==
  LET t == <<"rd", c>> IN
  /\ thr[t].pc = "chat"
  /\ bcasts' = Spawn(NewBroadcast(thr[t].h, thr[t].p, Msg("chat_message", thr[t].p, NoPlayer)))
  /\ thr' = [thr EXCEPT ![t] = [thr[t] EXCEPT !.pc = "read", !.h = NilRoom, !.m = NoFrame]]
  /\ UNCHANGED <<regVars, calls, dbOperations, mu, poolVars, nextConn, connection, ctxDone, ws, send, events, drops, preempted>>

\* case "leave_room": c.cancel() after rm.RemovePlayer has returned.
handleLeaveRoom(c) ==
  LET t == <<"rd", c>> IN
  /\ thr[t].pc = "leave"
  /\ ctxDone' = [ctxDone EXCEPT ![c] = TRUE]
  /\ thr' = [thr EXCEPT ![t].pc = "read"]
  /\ UNCHANGED <<regVars, calls, dbOperations, mu, poolVars, nextConn, connection, ws, send, events, bcasts, drops, preempted>>

\* handleDisconnect under room.mu.Lock: delete the player from room.Players,
\* then go broadcastToRoomAsync(room, c.playerID, leaveMessage).  at keeps the
\* Timestamp of the leaveMessage.
handleDisconnect(c) ==
  LET t == <<"rd", c>> IN
  /\ thr[t].pc = "disc"
  /\ roomPlayers' = [roomPlayers EXCEPT ![thr[t].h] = @ \ {thr[t].p}]
  /\ playerRec' = [playerRec EXCEPT ![thr[t].h][thr[t].p] = NoRec]
  /\ bcasts' = Spawn(NewBroadcast(thr[t].h, thr[t].p, Msg("player_left", thr[t].p, NoPlayer)))
  /\ thr' = [thr EXCEPT ![t] = [thr[t] EXCEPT !.pc = "rdExit", !.h = NilRoom, !.at = now]]
  /\ UNCHANGED <<rooms, nextRoom, playerToRoom, lastActivity, prior, calls, dbOperations, mu, poolVars,
                 nextConn, connection, ctxDone, ws, send, events, drops, preempted>>

\* The deferred c.cancel() of readPump.
readPumpExit(c) ==
  LET t == <<"rd", c>> IN
  /\ thr[t].pc = "rdExit"
  /\ ctxDone' = [ctxDone EXCEPT ![c] = TRUE]
  /\ thr' = [thr EXCEPT ![t].pc = "done"]
  /\ UNCHANGED <<regVars, calls, dbOperations, mu, poolVars, nextConn, connection, ws, send, events, bcasts, drops, preempted>>

(* ------------------------------------------------------------------ *)
(* handlePrivateMessage                                                 *)
(* ------------------------------------------------------------------ *)
\* A limiter that lets every message through.
rateLimitedNever(n) == FALSE

\* c.messageCount > 20
rateLimited(n) == n > PMLimit

\* cp.getConnection
getConnection(p) == IF p \in DOMAIN pool THEN pool[p] ELSE NoConn

\* The tally of a window that opened at time start.
NewTally(start) ==
  [start |-> start, seen |-> 0, passed |-> 0, bad |-> 0, offered |-> 0,
   sent |-> 0, errors |-> 0]

\* The tally once a frame has arrived at time at: the frame opens a new
\* window when a minute or more has passed since the open one began.
Arrive(w, at) ==
  LET v == IF at - w.start < Minute THEN w ELSE NewTally(at) IN
  [v EXCEPT !.seen = @ + 1]

\* The rate limiter, then the checks of the text and of the target id: all of
\* it on fields of the connection and of the frame.
handlePrivateMessageLimit(c) ==
  LET t == <<"rd", c>>
      m == thr[t].m
      within == now - lastMessageTime[c] < Minute
      n == IF within THEN messageCount[c] + 1 ELSE 1
      limited == within /\ rateLimited(n)
      ok == m.valid /\ m.target # NoPlayer /\ m.target # connection[c].playerID
      w == Arrive(tally[c], now)
  IN
  /\ thr[t].pc = "pm"
  /\ messageCount' = [messageCount EXCEPT ![c] = n]
  /\ lastMessageTime' = [lastMessageTime EXCEPT ![c] = IF within THEN @ ELSE now]
  /\ tally' = [tally EXCEPT ![c] =
                 IF limited THEN w
                 ELSE [w EXCEPT !.passed = @ + 1, !.bad = IF ok THEN @ ELSE @ + 1]]
  /\ thr' = [thr EXCEPT ![t] =
               IF limited \/ ~ok THEN [thr[t] EXCEPT !.pc = "read", !.m = NoFrame]
               ELSE [thr[t] EXCEPT !.pc = "gp1", !.k = "pm", !.q = m.target]]
  /\ UNCHANGED <<regVars, calls, dbOperations, mu, poolVars, connVars, now>>

\* rm.GetPlayer(target) == nil: offer private_message_error to the sender.
handlePrivateMessageError(c) ==
  LET t == <<"rd", c>> IN
  /\ thr[t].pc = "pmErr"
  /\ send' = [send EXCEPT ![c] = Offer(@, Msg("private_message_error", SystemID, NoPlayer))]
  /\ drops' = [drops EXCEPT ![c] = IF send'[c] = send[c] THEN @ + 1 ELSE @]
  /\ tally' = [tally EXCEPT ![c].errors = @ + 1]
  /\ thr' = [thr EXCEPT ![t] = [thr[t] EXCEPT !.pc = "read", !.m = NoFrame, !.q = NoPlayer]]
  /\ UNCHANGED <<regVars, calls, dbOperations, mu, poolVars, nextConn, connection, ctxDone, ws, events,
                 bcasts, preempted, messageCount, lastMessageTime, now>>

\* connectionPool.getConnection(target): offer the private_message to the
\* connection found, or only log that the target is not connected.
handlePrivateMessageSend(c) ==
  LET t == <<"rd", c>>
      target == thr[t].m.target
      conn == getConnection(target)
  IN
  /\ thr[t].pc = "pmSend"
  /\ IF conn \in AllConns
     THEN /\ send' = [send EXCEPT ![conn] = Offer(@, Msg("private_message", thr[t].p, target))]
          /\ drops' = [drops EXCEPT ![conn] = IF send'[conn] = send[conn] THEN @ + 1 ELSE @]
          /\ tally' = [tally EXCEPT ![c].offered = @ + 1]
     ELSE UNCHANGED <<send, drops, tally>>
  /\ thr' = [thr EXCEPT ![t] = [thr[t] EXCEPT !.pc = "pmConfirm", !.conn = conn]]
  /\ UNCHANGED <<regVars, calls, dbOperations, mu, poolVars, nextConn, connection, ctxDone, ws, events,
                 bcasts, preempted, messageCount, lastMessageTime, now>>

\* Offer private_message_sent to the sender.
handlePrivateMessageConfirm(c) ==
  LET t == <<"rd", c>> IN
  /\ thr[t].pc = "pmConfirm"
  /\ send' = [send EXCEPT ![c] = Offer(@, Msg("private_message_sent", SystemID, thr[t].m.target))]
  /\ drops' = [drops EXCEPT ![c] = IF send'[c] = send[c] THEN @ + 1 ELSE @]
  /\ tally' = [tally EXCEPT ![c].sent = @ + 1]
  /\ thr' = [thr EXCEPT ![t] = [thr[t] EXCEPT !.pc = "read", !.m = NoFrame, !.q = NoPlayer,
                                               !.conn = NoConn]]
  /\ UNCHANGED <<regVars, calls, dbOperations, mu, poolVars, nextConn, connection, ctxDone, ws, events,
                 bcasts, preempted, messageCount, lastMessageTime, now>>

\* Half a minute passes.
Tick ==
  /\ now < MaxNow
  /\ now' = now + 1
  /\ UNCHANGED <<regVars, thr, calls, dbOperations, mu, poolVars, connVars, messageCount, lastMessageTime, tally>>

(* ------------------------------------------------------------------ *)
(* broadcastToRoomAsync                                                 *)
(* ------------------------------------------------------------------ *)
\* The members of the room with the sender among them.
broadcastRecipientsAll(room, excludePlayerID) == roomPlayers[room]

\* The members of the room other than excludePlayerID.
broadcastRecipients(room, excludePlayerID) == roomPlayers[room] \ {excludePlayerID}

\* Under room.mu.RLock: the pooled connections of the other members.
broadcastCollect(b) ==
  /\ BagIn(b, bcasts)
  /\ ~b.collected
  /\ LET targets == {pool[q] : q \in broadcastRecipients(b.room, b.exclude) \cap DOMAIN pool}
         rest == bcasts (-) SetToBag({b})
     IN bcasts' = IF targets = {} THEN rest
                  ELSE rest (+) SetToBag({[b EXCEPT !.collected = TRUE, !.targets = targets]})
  /\ UNCHANGED <<regVars, thr, calls, dbOperations, mu, poolVars, nextConn, connection, ctxDone, ws, send, events, drops, preempted>>

\* One target's goroutine: the non-blocking send of the serialized message.
broadcastSend(b, c) ==
  /\ BagIn(b, bcasts)
  /\ b.collected
  /\ c \in b.targets
  /\ send' = [send EXCEPT ![c] = Offer(@, b.msg)]
  /\ drops' = [drops EXCEPT ![c] = IF send'[c] = send[c] THEN @ + 1 ELSE @]
  /\ LET rest == bcasts (-) SetToBag({b}) IN
       bcasts' = IF b.targets = {c} THEN rest
                 ELSE rest (+) SetToBag({[b EXCEPT !.targets = @ \ {c}]})
  /\ UNCHANGED <<regVars, thr, calls, dbOperations, mu, poolVars, nextConn, connection, ctxDone, ws, events, preempted>>

(* ------------------------------------------------------------------ *)
(* The sweepers: performCleanup and cleanupInactivePlayers              *)
(* ------------------------------------------------------------------ *)
\* The same test when no room ever counts as inactive.
isInactiveNever(at, room) == FALSE

\* isInactive := now.Sub(room.LastActivity) > InactiveRoomTimeout
isInactive(at, room) == Sub(at, lastActivity[room]) > InactiveRoomTimeout

\* A sweeper's run is over: it waits for its ticker again.  at keeps the
\* time the run read.
Swept(s) == [Idle EXCEPT !.ret = "swept", !.at = s.at]

\* The ticker of the room sweeper fires: now := time.Now().
performCleanup0 ==
  /\ thr[RoomSweeper].pc = "idle"
  /\ thr' = [thr EXCEPT ![RoomSweeper] = [Idle EXCEPT !.pc = "pc1", !.at = now]]
  /\ UNCHANGED regVars

\* Under rm.mu.RLock: collect the rooms other than the main room that are
\* empty and inactive.
performCleanup1 ==
  LET s == thr[RoomSweeper]
      found == {id \in RoomIDs \ {MainRoomID} :
                  /\ rooms[id] # NilRoom
                  /\ roomPlayers[rooms[id]] = {}
                  /\ isInactive(s.at, rooms[id])}
  IN
  /\ s.pc = "pc1"
  /\ thr' = [thr EXCEPT ![RoomSweeper] =
               IF found = {} THEN Swept(s)
               ELSE [s EXCEPT !.pc = "pc2", !.roomsToDelete = found]]
  /\ UNCHANGED regVars

\* Under rm.mu.Lock: delete(rm.rooms, roomID) for every room collected.
performCleanup2 ==
  LET s == thr[RoomSweeper] IN
  /\ s.pc = "pc2"
  /\ rooms' = [id \in RoomIDs |-> IF id \in s.roomsToDelete THEN NilRoom ELSE rooms[id]]
  /\ thr' = [thr EXCEPT ![RoomSweeper] = Swept(s)]
  /\ UNCHANGED <<roomPlayers, nextRoom, playerToRoom, lastActivity, playerRec, prior>>

\* The ticker of the player activity monitor fires: now := time.Now(), and
\* rm.playerMu.RLock() for the loop over the index.
cleanupInactivePlayers0 ==
  LET entries == {p \in AllPlayers : playerToRoom[p] # NoRoomID} IN
  /\ thr[PlayerSweeper].pc = "idle"
  /\ thr' = [thr EXCEPT ![PlayerSweeper] =
               [Idle EXCEPT !.pc = IF entries = {} THEN "cip2" ELSE "cip1",
                            !.at = now, !.left = entries]]
  /\ UNCHANGED regVars

\* One entry of the index: collect the player when its room is gone, or when
\* its record is in the room, inactive, and last seen more than
\* DisconnectedPlayerTTL ago.
cleanupInactivePlayers1(p) ==
  LET s == thr[PlayerSweeper]
      room == getRoomByID(playerToRoom[p])
      collect == \/ room = NilRoom
                 \/ /\ p \in roomPlayers[room]
                    /\ ~playerRec[room][p].IsActive
                    /\ Sub(s.at, playerRec[room][p].LastSeen) > DisconnectedPlayerTTL
  IN
  /\ s.pc = "cip1"
  /\ p \in s.left
  /\ thr' = [thr EXCEPT ![PlayerSweeper] =
               [s EXCEPT !.pc = IF s.left = {p} THEN "cip2" ELSE "cip1",
                         !.left = @ \ {p},
                         !.playersToRemove = IF collect THEN @ \cup {p} ELSE @]]
  /\ UNCHANGED regVars

\* The loop over playersToRemove: rm.RemovePlayerOptimized(playerID).
cleanupInactivePlayers2 ==
  LET s == thr[PlayerSweeper] IN
  /\ s.pc = "cip2"
  /\ IF s.playersToRemove = {}
     THEN thr' = [thr EXCEPT ![PlayerSweeper] = Swept(s)]
     ELSE \E p \in s.playersToRemove :
            thr' = [thr EXCEPT ![PlayerSweeper] =
                      [s EXCEPT !.pc = "Rem1", !.k = "sweep", !.p = p,
                                !.playersToRemove = @ \ {p}]]
  /\ UNCHANGED regVars

(* ------------------------------------------------------------------ *)
(* Initial states                                                       *)
(* ------------------------------------------------------------------ *)
\* No caller records what it sees.
NoSeen ==
  [n |-> 0, op |-> "", p |-> NoPlayer, r |-> NoRoomID, ret |-> "", reg |-> <<>>,
   before |-> <<>>]

\* The registry after GetRoomManager and a sequence of requests, connections
\* and sweeps that have all ended: n fillers in the main room; every actor a
\* with the index entry place[a] (NoRoomID: none); the actors in stale with
\* no record in the room of their entry (the state handleDisconnect leaves);
\* ROOM1 in rm.rooms when exists, made and then swept when it is not but has
\* index entries; the last activity of ROOM1 age ticks ago; prior the
\* registry itself when the caller's returns are recorded (watched).
InitRegistryAt(n, place, stale, exists, age, watched) ==
  LET fill == {100 + i : i \in 1..n}
      entries(id) == {a \in Actors : place[a] = id}
      members(id) == (entries(id) \ stale) \cup (IF id = MainRoomID THEN fill ELSE {})
      made == exists \/ entries("ROOM1") # {}
  IN
  /\ Cardinality(members(MainRoomID)) <= MaxPlayersPerRoom
  /\ members("ROOM1") # {} => exists
  /\ \A a \in stale : place[a] # NoRoomID
  /\ rooms = [id \in RoomIDs |-> IF id = MainRoomID THEN mainRoom
                                 ELSE IF exists THEN 2 ELSE NilRoom]
  /\ roomPlayers = [h \in RoomObjs |-> IF h = mainRoom THEN members(MainRoomID)
                                       ELSE IF h = 2 /\ exists THEN members("ROOM1") ELSE {}]
  /\ nextRoom = IF made THEN 2 ELSE 1
  /\ playerToRoom = [p \in AllPlayers |-> IF p \in fill THEN MainRoomID
                                          ELSE IF p \in Actors THEN place[p] ELSE NoRoomID]
  /\ lastActivity = [h \in RoomObjs |-> IF h = 2 /\ made THEN 0 - age ELSE 0]
  /\ playerRec = [h \in RoomObjs |-> [p \in AllPlayers |->
                    IF p \in roomPlayers[h] THEN NewPlayer(0) ELSE NoRec]]
  /\ prior = IF watched THEN Seen(0, Idle, Registry) ELSE NoSeen

\* The registry after GetRoomManager and a sequence of join requests that
\* have all returned: n fillers in the main room and every actor a in the
\* room place[a] (NoRoomID: not joined).
InitRegistry(n, place) ==
  InitRegistryAt(n, place, {}, \E a \in Actors : place[a] = "ROOM1", 0, FALSE)

\* No request in flight.  The actors in est are connected: for each, the
\* HandleWebSocket call waits on the context and the two pumps run.
InitTasks(est) ==
  /\ thr = [t \in Tasks |->
              IF t[2] \notin est \/ t[1] = "http" THEN Idle
              ELSE IF t[1] = "ws"
              THEN [Idle EXCEPT !.pc = "wsWait", !.p = t[2], !.q = t[2], !.player = TRUE,
                                !.h = mainRoom]
              ELSE [Idle EXCEPT !.pc = IF t[1] = "wr" THEN "select" ELSE "read", !.p = t[2]]]
  /\ calls = 0
  /\ dbOperations = NilChan
  /\ mu = FreeMu

\* The pool and the connections: n pool fillers (players 1001.., members of
\* no room, for which no task acts) hold a connection; the filler
\* p in DOMAIN held holds one whose channel has held[p] frames waiting (room
\* broadcasts of the other connected filler); the actor a in est (1..k) holds
\* the connection a, made by the a-th upgrade request.
InitPool(n, held, est) ==
  LET up == est \cup DOMAIN held IN
  /\ pool = [x \in {1000 + i : i \in 1..n} \cup up |-> IF x \in up THEN x ELSE ForeignConn]
  /\ count = n + Cardinality(up)
  /\ nextConn = Cardinality(est)
  /\ connection = [c \in AllConns |-> IF c \in up THEN [playerID |-> c, room |-> mainRoom]
                                      ELSE [playerID |-> NoPlayer, room |-> NilRoom]]
  /\ ctxDone = [c \in AllConns |-> FALSE]
  /\ ws = [c \in AllConns |-> IF c \in up THEN "open" ELSE "none"]
  /\ send = [c \in AllConns |->
               IF c \in DOMAIN held
               THEN [i \in 1..held[c] |->
                       Msg("position_update", IF c = 101 THEN 102 ELSE 101, NoPlayer)]
               ELSE <<>>]
  /\ events = 0
  /\ bcasts = EmptyBag
  /\ drops = [c \in AllConns |-> 0]
  /\ preempted = {}

\* No connection has handled a private message; lastMessageTime is the zero
\* time, more than a minute before the clock starts.
InitLimiter ==
  /\ messageCount = [c \in AllConns |-> 0]
  /\ lastMessageTime = [c \in AllConns |-> 0 - Minute]
  /\ now = 0
  /\ tally = [c \in AllConns |-> NewTally(0 - Minute)]

\* No filler holds a connection.
NoneHeld == [p \in {} |-> 0]

(* ------------------------------------------------------------------ *)
(* Next-state relations                                                 *)
(* ------------------------------------------------------------------ *)
\* A step of a registry function, run by whichever task called it.
RegistryStep(t) ==
  /\ \/ RemovePlayerOptimized1(t)
     \/ RemovePlayerOptimized2(t)
     \/ RemovePlayerOptimized3(t)
     \/ RemovePlayerOptimized4(t)
     \/ addPlayerToRoom1(t)
     \/ addPlayerToRoom2(t)
     \/ addPlayerToRoom3(t)
     \/ addPlayerToRoom4(t)
     \/ AddPlayer(t)
     \/ AddPlayerToSpecificRoom1(t)
     \/ AddPlayerToSpecificRoom1b(t)
     \/ AddPlayerToSpecificRoom2(t)
     \/ AddPlayerToSpecificRoom3(t)
  /\ UNCHANGED <<calls, dbOperations, mu, poolVars, connVars, pmVars>>

\* A step of a registry lookup, run by whichever task called it.
LookupStep(t) ==
  /\ \/ GetPlayer1(t)
     \/ GetPlayer2(t)
     \/ GetPlayer2b(t)
     \/ GetPlayer3(t)
     \/ GetPlayerRoom1(t)
     \/ GetPlayerRoom2(t)
  /\ UNCHANGED <<calls, dbOperations, mu, poolVars, connVars, pmVars>>

\* A join or leave request arrives.
HttpCall(t) ==
  /\ \/ \E p \in Actors : CallAddPlayer(t, p)
     \/ \E p \in Actors, r \in RoomIDs : CallAddPlayerToSpecificRoom(t, p, r)
     \/ \E p \in Actors : CallRemovePlayer(t, p)
  /\ UNCHANGED <<poolVars, connVars, pmVars>>

HttpReturn(t) ==
  /\ Return(t)
  /\ UNCHANGED <<poolVars, connVars, pmVars>>

\* A step of the room sweeper.
RoomSweepStep ==
  /\ \/ performCleanup0
     \/ performCleanup1
     \/ performCleanup2
  /\ UNCHANGED <<calls, dbOperations, mu, poolVars, connVars, pmVars>>

\* A step of the player activity monitor.
PlayerSweepStep ==
  \/ /\ \/ cleanupInactivePlayers0
        \/ \E p \in AllPlayers : cleanupInactivePlayers1(p)
        \/ cleanupInactivePlayers2
     /\ UNCHANGED <<calls, dbOperations, mu, poolVars, connVars, pmVars>>
  \/ RegistryStep(PlayerSweeper)

\* An upgrade request arrives with one of the tokens.
UpgradeCall(tokens) ==
  /\ \E c \in Conns, token \in tokens : CallHandleWebSocket(c, token)
  /\ UNCHANGED pmVars

\* A step of the HandleWebSocket call that serves the c-th upgrade request.
HandlerStep(c) ==
  /\ \/ HandleWebSocketAccept(c)
     \/ \E ok \in BOOLEAN : HandleWebSocketUpgrade(c, ok)
     \/ HandleWebSocketClose(c)
     \/ HandleWebSocketAdd(c)
     \/ HandleWebSocketMark(c)
     \/ HandleWebSocketInit(c)
     \/ HandleWebSocketWait(c)
     \/ HandleWebSocketDefer(c)
  /\ UNCHANGED pmVars

WritePumpStep(c) ==
  /\ \/ writePumpSend(c)
     \/ writePumpPing(c)
     \/ writePumpDone(c)
  /\ UNCHANGED pmVars

\* The client of the connection c sends a frame or goes away.
ClientEvent(c) ==
  /\ \/ \E m \in InFrames : readPumpFrame(c, m)
     \/ ClientClose(c)
  /\ UNCHANGED pmVars

ReadPumpStep(c) ==
  /\ \/ readPumpError(c)
     \/ handlePositionUpdateOptimized(c)
     \/ handleChatMessage(c)
     \/ handleLeaveRoom(c)
     \/ handleDisconnect(c)
     \/ readPumpExit(c)
  /\ UNCHANGED pmVars

PrivateMessageStep(c) ==
  \/ handlePrivateMessageLimit(c)
  \/ handlePrivateMessageError(c)
  \/ handlePrivateMessageSend(c)
  \/ handlePrivateMessageConfirm(c)

BroadcastStep ==
  /\ \E b \in BagToSet(bcasts) :
       \/ broadcastCollect(b)
       \/ \E c \in AllConns : broadcastSend(b, c)
  /\ UNCHANGED pmVars

\* A step of the server for the c-th upgrade request: its handler, its pumps
\* and the registry functions they call.
ServerStep(c) ==
  \/ HandlerStep(c)
  \/ WritePumpStep(c)
  \/ ReadPumpStep(c)
  \/ PrivateMessageStep(c)
  \/ LookupStep(<<"ws", c>>)
  \/ LookupStep(<<"rd", c>>)
  \/ RegistryStep(<<"rd", c>>)

(* ------------------------------------------------------------------ *)
(* The registry under concurrent join and leave requests                *)
(* ------------------------------------------------------------------ *)
InitReg ==
  /\ \E n \in {0, MaxPlayersPerRoom - 1} :
       \E place \in [Actors -> RoomIDs \cup {NoRoomID}] : InitRegistry(n, place)
  /\ InitTasks({})
  /\ InitPool(0, NoneHeld, {})
  /\ InitLimiter

NextReg ==
  \E t \in HttpTasks : RegistryStep(t) \/ HttpCall(t) \/ HttpReturn(t)

SpecReg == InitReg /\ [][NextReg]_vars

(* ------------------------------------------------------------------ *)
(* Clients that act one after the other                                 *)
(* ------------------------------------------------------------------ *)
\* Nothing is in flight: no request, no handler or pump between two waits,
\* no frame waiting to be written, no broadcast task.
Quiet ==
  /\ \A t \in HttpTasks : thr[t].pc = "idle"
  /\ \A c \in Conns :
       /\ \/ thr[<<"ws", c>>].pc \in {"idle", "ret"}
          \/ thr[<<"ws", c>>].pc = "wsWait" /\ ~ctxDone[c]
       /\ \/ thr[<<"rd", c>>].pc \in {"idle", "done"}
          \/ thr[<<"rd", c>>].pc = "read" /\ ws[c] = "open"
       /\ \/ thr[<<"wr", c>>].pc \in {"idle", "done"}
          \/ thr[<<"wr", c>>].pc = "select" /\ ~ctxDone[c] /\ ws[c] = "open" /\ send[c] = <<>>
  /\ bcasts = EmptyBag

InitSeq ==
  /\ \E place \in [Actors -> {MainRoomID, NoRoomID}] : InitRegistry(0, place)
  /\ InitTasks({})
  /\ InitPool(0, NoneHeld, {})
  /\ InitLimiter

\* The next request, frame or close comes when the last one has been served.
ClientStep ==
  /\ Quiet
  /\ \/ \E t \in HttpTasks : HttpCall(t)
     \/ UpgradeCall(Tokens)
     \/ \E c \in Conns : ClientEvent(c)

NextSeq ==
  \/ ClientStep
  \/ \E t \in HttpTasks : RegistryStep(t) \/ HttpReturn(t)
  \/ \E c \in Conns : ServerStep(c)
  \/ BroadcastStep

SpecSeq == InitSeq /\ [][NextSeq]_vars

(* ------------------------------------------------------------------ *)
(* The connection layer: upgrades, pumps and broadcasts                 *)
(* ------------------------------------------------------------------ *)
\* Every actor has joined the main room; no upgrade request yet.
InitConn ==
  /\ InitRegistry(0, [a \in Actors |-> MainRoomID])
  /\ InitTasks({})
  /\ InitPool(0, NoneHeld, {})
  /\ InitLimiter

NextConn ==
  \/ UpgradeCall(Actors)
  \/ \E c \in Conns : ClientEvent(c)
  \/ \E c \in Conns : ServerStep(c)
  \/ BroadcastStep

SpecConn == InitConn /\ [][NextConn]_vars

(* ------------------------------------------------------------------ *)
(* Upgrades at a pool that is one short of its limit                    *)
(* ------------------------------------------------------------------ *)
InitPoolFull ==
  /\ InitRegistry(0, [a \in Actors |-> MainRoomID])
  /\ InitTasks({})
  /\ InitPool(MaxConcurrentConnections - 1, NoneHeld, {})
  /\ InitLimiter

\* The clients send nothing and stay.
NextPoolFull ==
  \/ UpgradeCall(Actors)
  \/ \E c \in Conns :
       \/ HandlerStep(c)
       \/ WritePumpStep(c)
       \/ ReadPumpStep(c)
       \/ LookupStep(<<"ws", c>>)
       \/ LookupStep(<<"rd", c>>)
  \/ BroadcastStep

SpecPoolFull == InitPoolFull /\ [][NextPoolFull]_vars

(* ------------------------------------------------------------------ *)
(* Slow clients: channels that are full or one short of it              *)
(* ------------------------------------------------------------------ *)
\* The fillers 101 and 102 are members with a connection each; the channel
\* of 101 is full and that of 102 has room for one frame.  The player 1 is
\* connected; the other actors have joined the main room or no room.
InitSlow ==
  /\ \E place \in [Actors -> {MainRoomID, NoRoomID}] :
       place[1] = MainRoomID /\ InitRegistry(2, place)
  /\ InitTasks({1})
  /\ InitPool(0, [p \in {101, 102} |-> IF p = 101 THEN SendCap ELSE SendCap - 1], {1})
  /\ InitLimiter

\* Every upgrade request is for the player 2.
NextSlow ==
  \/ UpgradeCall({2})
  \/ \E c \in Conns : ClientEvent(c)
  \/ \E c \in Conns : ServerStep(c)
  \/ BroadcastStep

SpecSlow == InitSlow /\ [][NextSlow]_vars

(* ------------------------------------------------------------------ *)
(* Preemption, under a fair scheduler                                   *)
(* ------------------------------------------------------------------ *)
\* Every goroutine that can take a step is scheduled in the end.
Fairness ==
  /\ \A c \in Conns :
       /\ WF_vars(HandlerStep(c))
       /\ WF_vars(WritePumpStep(c))
       /\ WF_vars(ReadPumpStep(c))
       /\ WF_vars(PrivateMessageStep(c))
       /\ WF_vars(LookupStep(<<"ws", c>>))
       /\ WF_vars(LookupStep(<<"rd", c>>))
       /\ WF_vars(RegistryStep(<<"rd", c>>))
  /\ WF_vars(BroadcastStep)

\* The player 1 is connected.
InitPreempt ==
  /\ InitRegistry(0, [a \in Actors |-> MainRoomID])
  /\ InitTasks({1})
  /\ InitPool(0, NoneHeld, {1})
  /\ InitLimiter

\* Every upgrade request is for the player 1.
NextPreempt ==
  \/ UpgradeCall({1})
  \/ \E c \in Conns : ClientEvent(c)
  \/ \E c \in Conns : ServerStep(c)
  \/ BroadcastStep

SpecPreempt == InitPreempt /\ [][NextPreempt]_vars /\ Fairness

(* ------------------------------------------------------------------ *)
(* A burst of private messages                                          *)
(* ------------------------------------------------------------------ *)
\* The player 1 is connected; the filler 101 is a member with a connection.
InitBurst ==
  /\ InitRegistry(1, [a \in Actors |-> MainRoomID])
  /\ InitTasks({1})
  /\ InitPool(0, [p \in {101} |-> 0], {1})
  /\ InitLimiter

\* The client sends private messages and reads nothing.
NextBurst ==
  \/ \E c \in Conns, m \in BurstFrames : readPumpBurst(c, m) /\ UNCHANGED pmVars
  \/ \E c \in Conns :
       \/ handlePrivateMessageLimit(c)
       \/ handlePrivateMessageSend(c)
       \/ handlePrivateMessageConfirm(c)
       \/ LookupStep(<<"rd", c>>)
  \/ Tick

SpecBurst == InitBurst /\ [][NextBurst]_vars

(* ------------------------------------------------------------------ *)
(* A disconnect, the clock and the sweepers                             *)
(* ------------------------------------------------------------------ *)
\* The player 1 is a member of the main room and connected.  The player 2
\* has no entry, or has the entry that a connection to ROOM1 has left which
\* ended InactiveRoomTimeout ago, ROOM1 being empty since.
InitGrace ==
  /\ \E place \in [Actors -> {MainRoomID, "ROOM1", NoRoomID}] :
       /\ place[1] = MainRoomID
       /\ place[2] # MainRoomID
       /\ InitRegistryAt(0, place, {a \in Actors : place[a] = "ROOM1"},
                         place[2] = "ROOM1", InactiveRoomTimeout \div TickSeconds, FALSE)
  /\ InitTasks({1})
  /\ InitPool(0, NoneHeld, {1})
  /\ InitLimiter

\* The client goes away; time passes; the sweepers run.
NextGrace ==
  \/ \E c \in Conns : ClientClose(c) /\ UNCHANGED pmVars
  \/ \E c \in Conns :
       \/ HandlerStep(c)
       \/ WritePumpStep(c)
       \/ ReadPumpStep(c)
       \/ LookupStep(<<"rd", c>>)
  \/ BroadcastStep
  \/ RoomSweepStep
  \/ PlayerSweepStep
  \/ Tick

SpecGrace == InitGrace /\ [][NextGrace]_vars

(* ------------------------------------------------------------------ *)
(* The room sweeper under concurrent join and leave requests            *)
(* ------------------------------------------------------------------ *)
\* ROOM1 exists; its last activity was just now, or one tick more than
\* InactiveRoomTimeout ago.
InitSweep ==
  /\ \E place \in [Actors -> RoomIDs \cup {NoRoomID}] :
       \E age \in {0, InactiveRoomTimeout \div TickSeconds + 1} :
         InitRegistryAt(0, place, {}, TRUE, age, FALSE)
  /\ InitTasks({})
  /\ InitPool(0, NoneHeld, {})
  /\ InitLimiter

\* Join and leave requests that come one after the other, while the sweeper
\* runs.
NextSweep ==
  \/ LET t == <<"http", 1>> IN RegistryStep(t) \/ HttpCall(t) \/ HttpReturn(t)
  \/ RoomSweepStep

SpecSweep == InitSweep /\ [][NextSweep]_vars

\* The ticker of the room sweeper keeps firing and performCleanup keeps
\* running.
SpecSweepFair == InitSweep /\ [][NextSweep]_vars /\ WF_vars(RoomSweepStep)

(* ------------------------------------------------------------------ *)
(* One caller: sequences of registry calls                              *)
(* ------------------------------------------------------------------ *)
\* Any registry that requests, connections and sweeps can have left: the
\* main room empty, one short of full or full; every actor with or without
\* an index entry, with or without its record in the room of the entry;
\* ROOM1 there or not.
InitAlg ==
  /\ \E n \in {0, MaxPlayersPerRoom - 1, MaxPlayersPerRoom} :
       \E place \in [Actors -> RoomIDs \cup {NoRoomID}] :
         \E stale \in SUBSET Actors, exists \in BOOLEAN :
           InitRegistryAt(n, place, stale, exists, 0, TRUE)
  /\ InitTasks({})
  /\ InitPool(0, NoneHeld, {})
  /\ InitLimiter

\* One caller sends its requests one after the other.
NextAlg ==
  LET t == <<"http", 1>> IN
  \/ RegistryStep(t)
  \/ HttpCall(t)
  \/ ReturnRecorded(t) /\ UNCHANGED <<poolVars, connVars, pmVars>>

SpecAlg == InitAlg /\ [][NextAlg]_vars

(* ------------------------------------------------------------------ *)
(* Properties                                                           *)
(* ------------------------------------------------------------------ *)
(* ------------------------------------------------------------------ *)
(* A connected player, join and leave requests, a fair scheduler        *)
(* ------------------------------------------------------------------ *)
\* The goroutines of the c-th upgrade request are scheduled in the end: the
\* handler, the write pump and the read pump, each with the functions it
\* calls.
Scheduled(c) ==
  /\ WF_vars(HandlerStep(c) \/ LookupStep(<<"ws", c>>))
  /\ WF_vars(WritePumpStep(c))
  /\ WF_vars(ReadPumpStep(c) \/ PrivateMessageStep(c) \/ LookupStep(<<"rd", c>>)
               \/ RegistryStep(<<"rd", c>>))

\* The player 1 has joined the main room and is connected.
InitDrop ==
  /\ InitRegistry(0, [a \in Actors |-> IF a = 1 THEN MainRoomID ELSE NoRoomID])
  /\ InitTasks({1})
  /\ InitPool(0, NoneHeld, {1})
  /\ InitLimiter

\* The client sends frames or goes away while one caller sends join and
\* leave requests, one after the other.
NextDrop ==
  LET t == <<"http", 1>> IN
  \/ RegistryStep(t) \/ HttpCall(t) \/ HttpReturn(t)
  \/ \E c \in Conns : ClientEvent(c)
  \/ \E c \in Conns : ServerStep(c)
  \/ BroadcastStep

SpecDrop ==
  /\ InitDrop /\ [][NextDrop]_vars
  /\ \A c \in Conns : Scheduled(c)
  /\ WF_vars(RegistryStep(<<"http", 1>>) \/ HttpReturn(<<"http", 1>>))
  /\ WF_vars(BroadcastStep)

(* ------------------------------------------------------------------ *)
(* A connection between its registration and its initial room state     *)
(* ------------------------------------------------------------------ *)
\* The filler 101 is a member of the main room with a connection.  The first
\* upgrade request, for the player 1, has registered its connection and is
\* about to take room.mu for player.IsActive; broadcasts of 101 have put no
\* frame or SendCap frames into the new channel since addConnection.
InitLate ==
  /\ \E place \in [Actors -> {MainRoomID, NoRoomID}] :
       place[1] = MainRoomID /\ InitRegistry(1, place)
  /\ thr = [t \in Tasks |->
              IF t = <<"ws", 1>>
              THEN [Idle EXCEPT !.pc = "wsMark", !.p = 1, !.q = 1, !.player = TRUE,
                                !.h = mainRoom]
              ELSE Idle]
  /\ calls = 0
  /\ dbOperations = NilChan
  /\ mu = FreeMu
  /\ pool = [x \in {1, 101} |-> x]
  /\ count = 2
  /\ nextConn = 1
  /\ connection = [c \in AllConns |-> IF c \in {1, 101} THEN [playerID |-> c, room |-> mainRoom]
                                      ELSE [playerID |-> NoPlayer, room |-> NilRoom]]
  /\ ctxDone = [c \in AllConns |-> FALSE]
  /\ ws = [c \in AllConns |-> IF c \in {1, 101} THEN "open" ELSE "none"]
  /\ \E n \in {0, SendCap} :
       send = [c \in AllConns |->
                 IF c = 1 THEN [i \in 1..n |-> Msg("position_update", 101, NoPlayer)]
                 ELSE <<>>]
  /\ events = 0
  /\ bcasts = EmptyBag
  /\ drops = [c \in AllConns |-> 0]
  /\ preempted = {}
  /\ InitLimiter

\* The client reads nothing: the write pump stays in WriteMessage.
NextLate ==
  \/ \E c \in Conns :
       \/ ClientEvent(c)
       \/ HandlerStep(c)
       \/ ReadPumpStep(c)
       \/ PrivateMessageStep(c)
       \/ LookupStep(<<"ws", c>>)
       \/ LookupStep(<<"rd", c>>)
       \/ RegistryStep(<<"rd", c>>)
  \/ BroadcastStep

SpecLate == InitLate /\ [][NextLate]_vars

(* ------------------------------------------------------------------ *)
(* Frames with a position, frames with a forged sender                  *)
(* ------------------------------------------------------------------ *)
\* The client of a connection sends one of these frames, or goes away.
NextMove ==
  \/ \E c \in Conns :
       \/ \E m \in MovedOrForged : readPumpFrame(c, m) /\ UNCHANGED pmVars
       \/ ClientClose(c) /\ UNCHANGED pmVars
       \/ HandlerStep(c)
       \/ WritePumpStep(c)
       \/ ReadPumpStep(c)
       \/ PrivateMessageStep(c)
       \/ LookupStep(<<"rd", c>>)
  \/ BroadcastStep

SpecMove == InitSlow /\ [][NextMove]_vars

(* ------------------------------------------------------------------ *)
(* Upgrade requests that are turned away                                *)
(* ------------------------------------------------------------------ *)
\* Player 1 has joined the main room and player 2 has joined no room; the
\* pool is full or has room for one connection.
InitReject ==
  /\ InitRegistry(0, [a \in Actors |-> IF a = 1 THEN MainRoomID ELSE NoRoomID])
  /\ InitTasks({})
  /\ \E n \in {MaxConcurrentConnections - 1, MaxConcurrentConnections} :
       InitPool(n, NoneHeld, {})
  /\ InitLimiter

\* Upgrade requests with the token of player 1, of player 2 or with an empty
\* token; the clients send nothing and stay.
NextReject ==
  \/ UpgradeCall(Tokens)
  \/ \E c \in Conns :
       \/ HandlerStep(c)
       \/ WritePumpStep(c)
       \/ ReadPumpStep(c)
       \/ LookupStep(<<"ws", c>>)
       \/ LookupStep(<<"rd", c>>)
  \/ BroadcastStep

SpecReject == InitReject /\ [][NextReject]_vars

(* ------------------------------------------------------------------ *)
(* Join-specific-room requests and their room ids                       *)
(* ------------------------------------------------------------------ *)
InitJoin ==
  /\ \E place \in [Actors -> {MainRoomID, NoRoomID}] : InitRegistry(0, place)
  /\ InitTasks({})
  /\ InitPool(0, NoneHeld, {})
  /\ InitLimiter

\* A join-specific-room request arrives with one of the room ids.
JoinSpecificCall(t) ==
  /\ \E p \in Actors, r \in RoomIDs, body \in RoomIDTexts : handleJoinSpecificRoom(t, p, r, body)
  /\ UNCHANGED <<poolVars, connVars, pmVars>>

NextJoin ==
  \E t \in HttpTasks : RegistryStep(t) \/ JoinSpecificCall(t) \/ HttpReturn(t)

SpecJoin == InitJoin /\ [][NextJoin]_vars

(* ------------------------------------------------------------------ *)
(* The async database worker and its channel                            *)
(* ------------------------------------------------------------------ *)
\* for operation := range dbOperations: the worker takes the next operation.
\* The worker is followed while the channel is within MaxDrain operations of
\* full, and when it holds no more operations than requests were issued.
workerReceive ==
  /\ thr[DbWorker].pc = "range"
  /\ dbOperations.made
  /\ dbOperations.buf # <<>>
  /\ \/ Len(dbOperations.buf) > DbQueueCap - MaxDrain
     \/ Len(dbOperations.buf) <= MaxCalls
  /\ dbOperations' = [dbOperations EXCEPT !.buf = Tail(@)]
  /\ thr' = [thr EXCEPT ![DbWorker].pc = "operation"]

\* operation() returns, after however long stmt.Exec takes.
workerDone ==
  /\ thr[DbWorker].pc = "operation"
  /\ thr' = [thr EXCEPT ![DbWorker].pc = "range"]
  /\ UNCHANGED dbOperations

DbWorkerStep ==
  /\ workerReceive \/ workerDone
  /\ UNCHANGED <<regVars, calls, mu, poolVars, connVars, pmVars>>

\* Nobody has joined.  InitDB has not run and dbOperations is nil, or
\* initAsyncWorker has made the channel and started the worker, and the
\* channel holds no operation, DbQueueCap - 1 or DbQueueCap operations for
\* the filler 101.
InitSink ==
  /\ InitRegistry(0, [a \in Actors |-> NoRoomID])
  /\ \E made \in BOOLEAN, n \in {0, DbQueueCap - 1, DbQueueCap} :
       /\ made \/ n = 0
       /\ dbOperations = [made |-> made,
                          buf |-> [i \in 1..n |-> [userID |-> 101, roomID |-> MainRoomID]]]
       /\ thr = [t \in Tasks |-> IF t = DbWorker /\ made THEN [Idle EXCEPT !.pc = "range"]
                                 ELSE Idle]
  /\ calls = 0
  /\ mu = FreeMu
  /\ InitPool(0, NoneHeld, {})
  /\ InitLimiter

\* Join and leave requests while the worker runs at its own pace.
NextSink ==
  \/ \E t \in HttpTasks : RegistryStep(t) \/ HttpCall(t) \/ HttpReturn(t)
  \/ DbWorkerStep

SpecSink == InitSink /\ [][NextSink]_vars

(* ------------------------------------------------------------------ *)
(* The locks of the registry functions                                  *)
(* ------------------------------------------------------------------ *)
\* The Lock, RLock, Unlock and RUnlock calls of a registry function, in the
\* order the function makes them, one sequence for every path through it;
\* a loop over rooms or index entries is followed for at most one of them.
LockPaths(op) ==
  LET R(l) == <<<<"RLock", l>>, <<"RUnlock", l>>>>
      W(l) == <<<<"Lock", l>>, <<"Unlock", l>>>>
      byIndex == R("rm.playerMu")
      byID == R("rm.mu")
      remove == {byIndex,
                 byIndex \o byID \o W("rm.playerMu"),
                 byIndex \o byID \o W("room.mu") \o W("rm.playerMu")}
      admit == {byID,
                byID \o R("room.mu"),
                byID \o R("room.mu") \o W("room.mu"),
                byID \o R("room.mu") \o W("room.mu") \o W("rm.playerMu") \o W("rm.stats.mu")}
      create == {W("rm.mu"),
                 <<<<"Lock", "rm.mu">>>> \o W("rm.stats.mu") \o <<<<"Unlock", "rm.mu">>>>}
      scan == {<<<<"RLock", "rm.mu">>>> \o rs \o <<<<"RUnlock", "rm.mu">>>> :
                 rs \in {<<>>, R("room.mu")}}
  IN CASE op = "AddPlayer" ->
            {byIndex} \cup {byIndex \o a : a \in admit}
              \cup {byIndex \o r \o a : r \in remove, a \in admit}
       [] op = "AddPlayerToSpecificRoom" ->
            {byIndex \o byID}
              \cup {byIndex \o byIndex \o r \o c \o a :
                      r \in remove \cup {<<>>}, c \in create, a \in admit}
       [] op = "RemovePlayer" -> remove
       [] op = "GetPlayer" ->
            {byIndex, byIndex \o byID \o W("rm.playerMu"), byIndex \o byID \o R("room.mu")}
       [] op = "GetRoomStats" -> scan
       [] op = "GetManagerStats" ->
            {<<<<"RLock", "rm.stats.mu">>>> \o R("rm.mu") \o R("rm.playerMu")
               \o <<<<"RUnlock", "rm.stats.mu">>>>}
       [] op = "performCleanup" ->
            {W("rm.stats.mu") \o s \o d :
               s \in scan,
               d \in {<<>>, <<<<"Lock", "rm.mu">>>> \o W("rm.stats.mu") \o <<<<"Unlock", "rm.mu">>>>}}
       [] op = "cleanupInactivePlayers" ->
            {<<<<"RLock", "rm.playerMu">>>> \o e \o <<<<"RUnlock", "rm.playerMu">>>> \o r :
               e \in {<<>>, byID, byID \o R("room.mu")}, r \in remove \cup {<<>>}}

\* The tasks that call them: the requests and the two sweepers.
LockTasks == HttpTasks \cup {RoomSweeper, PlayerSweeper}

\* The registry functions the requests call.
RegistryOps ==
  {"AddPlayer", "AddPlayerToSpecificRoom", "RemovePlayer", "GetPlayer", "GetRoomStats",
   "GetManagerStats"}

\* A request calls a registry function, or a ticker fires for a sweeper; the
\* task takes one of the paths through the function.
CallLocked(t, op) ==
  /\ thr[t].pc = "idle"
  /\ Cardinality({u \in Tasks : thr[u].pc # "idle"}) < MaxActive
  /\ t \in HttpTasks => calls < MaxCalls
  /\ calls' = IF t \in HttpTasks THEN calls + 1 ELSE calls
  /\ \E path \in LockPaths(op) :
       thr' = [thr EXCEPT ![t] = [Idle EXCEPT !.pc = "mu", !.todo = path]]
  /\ UNCHANGED <<regVars, dbOperations, mu, poolVars, connVars, pmVars>>

\* The next call of the task on a sync.RWMutex.  RLock waits while a task is
\* in Lock, whether it holds the lock or waits for the readers to leave; Lock
\* waits for the task in Lock, then keeps new readers out and waits until the
\* readers have left.  After its last call the function returns.
MuStep(t) ==
  LET s == thr[t]
      l == Head(s.todo)[2]
      call == Head(s.todo)[1]
      next == [s EXCEPT !.pc = "mu", !.todo = Tail(s.todo)]
  IN
  /\ s.pc \in {"mu", "muWait"}
  /\ IF s.todo = <<>>
     THEN thr' = [thr EXCEPT ![t] = Idle] /\ UNCHANGED mu
     ELSE CASE call = "RLock" ->
                 /\ mu[l].writer = NoTask
                 /\ mu' = [mu EXCEPT ![l].readers = @ \cup {t}]
                 /\ thr' = [thr EXCEPT ![t] = next]
            [] call = "RUnlock" ->
                 /\ mu' = [mu EXCEPT ![l].readers = @ \ {t}]
                 /\ thr' = [thr EXCEPT ![t] = next]
            [] call = "Lock" /\ s.pc = "mu" ->
                 /\ mu[l].writer = NoTask
                 /\ mu' = [mu EXCEPT ![l].writer = t]
                 /\ thr' = [thr EXCEPT ![t] = IF mu[l].readers = {} THEN next
                                               ELSE [s EXCEPT !.pc = "muWait"]]
            [] call = "Lock" /\ s.pc = "muWait" ->
                 /\ mu[l].readers = {}
                 /\ thr' = [thr EXCEPT ![t] = next]
                 /\ UNCHANGED mu
            [] call = "Unlock" ->
                 /\ mu' = [mu EXCEPT ![l].writer = NoTask]
                 /\ thr' = [thr EXCEPT ![t] = next]
  /\ UNCHANGED <<regVars, calls, dbOperations, poolVars, connVars, pmVars>>

InitLocks ==
  /\ InitRegistry(0, [a \in Actors |-> MainRoomID])
  /\ InitTasks({})
  /\ InitPool(0, NoneHeld, {})
  /\ InitLimiter

\* Requests and the two sweepers, each at its own pace.
NextLocks ==
  \/ \E t \in HttpTasks, op \in RegistryOps : CallLocked(t, op)
  \/ CallLocked(RoomSweeper, "performCleanup")
  \/ CallLocked(PlayerSweeper, "cleanupInactivePlayers")
  \/ \E t \in LockTasks : MuStep(t)

SpecLocks == InitLocks /\ [][NextLocks]_vars

(* ------------------------------------------------------------------ *)
(* The room lock around sendInitialRoomState                            *)
(* ------------------------------------------------------------------ *)
\* room.mu.RLock() at the entry of sendInitialRoomState.
sendInitialRoomStateRLock(c) ==
  LET t == <<"ws", c>> IN
  /\ thr[t].pc = "wsInit"
  /\ t \notin mu["room.mu"].readers
  /\ mu["room.mu"].writer = NoTask
  /\ mu' = [mu EXCEPT !["room.mu"].readers = @ \cup {t}]
  /\ UNCHANGED <<regVars, thr, calls, dbOperations, poolVars, connVars, pmVars>>

\* The body of sendInitialRoomState, between its RLock and its deferred
\* RUnlock: sendBatchedMessages and go broadcastToRoomAsync.
sendInitialRoomStateLocked(c) ==
  /\ <<"ws", c>> \in mu["room.mu"].readers
  /\ HandleWebSocketInit(c)
  /\ UNCHANGED pmVars

\* The deferred room.mu.RUnlock() of sendInitialRoomState, also run when the
\* body panics.
sendInitialRoomStateRUnlock(c) ==
  LET t == <<"ws", c>> IN
  /\ thr[t].pc \in {"wsWait", "wsDefer"}
  /\ t \in mu["room.mu"].readers
  /\ mu' = [mu EXCEPT !["room.mu"].readers = @ \ {t}]
  /\ UNCHANGED <<regVars, thr, calls, dbOperations, poolVars, connVars, pmVars>>

\* The steps of NextLate with the room lock of sendInitialRoomState followed
\* call by call.  The handler and the pumps it starts go on after the
\* RUnlock; a step that takes room.mu.Lock (player.IsActive, a position, the
\* removal by handleDisconnect) waits until no task holds the RLock.
NextHold ==
  \/ \E c \in Conns :
       \/ sendInitialRoomStateRLock(c)
       \/ sendInitialRoomStateLocked(c)
       \/ sendInitialRoomStateRUnlock(c)
       \/ /\ <<"ws", c>> \notin mu["room.mu"].readers
          /\ \/ ClientEvent(c)
             \/ /\ thr[<<"ws", c>>].pc # "wsInit"
                /\ thr[<<"ws", c>>].pc = "wsMark" => mu["room.mu"].readers = {}
                /\ HandlerStep(c)
             \/ /\ thr[<<"rd", c>>].pc \in {"pos", "disc"} => mu["room.mu"].readers = {}
                /\ ReadPumpStep(c)
             \/ PrivateMessageStep(c)
             \/ LookupStep(<<"ws", c>>)
             \/ LookupStep(<<"rd", c>>)
             \/ /\ mu["room.mu"].readers = {}
                /\ RegistryStep(<<"rd", c>>)
  \/ BroadcastStep

SpecHold == InitLate /\ [][NextHold]_vars

(* ------------------------------------------------------------------ *)
(* Membership changes and position updates while the clock runs         *)
(* ------------------------------------------------------------------ *)
\* The player 1 is a member of the main room and connected; the player 2
\* has joined the main room or no room.
InitActivity ==
  /\ \E place \in [Actors -> {MainRoomID, NoRoomID}] :
       place[1] = MainRoomID /\ InitRegistry(0, place)
  /\ InitTasks({1})
  /\ InitPool(0, NoneHeld, {1})
  /\ InitLimiter

\* Join and leave requests for the player 2, one after the other; the
\* frames of the player 1 and the loss of its connection; the clock.
NextActivity ==
  \/ LET t == <<"http", 1>> IN
       \/ RegistryStep(t)
       \/ (CallAddPlayer(t, 2) \/ CallRemovePlayer(t, 2)) /\ UNCHANGED <<poolVars, connVars, pmVars>>
       \/ HttpReturn(t)
  \/ \E c \in Conns :
       \/ \E m \in RoomFrames : readPumpFrame(c, m) /\ UNCHANGED pmVars
       \/ ClientClose(c) /\ UNCHANGED pmVars
       \/ HandlerStep(c)
       \/ WritePumpStep(c)
       \/ ReadPumpStep(c)
       \/ LookupStep(<<"rd", c>>)
       \/ RegistryStep(<<"rd", c>>)
  \/ BroadcastStep
  \/ Tick

SpecActivity == InitActivity /\ [][NextActivity]_vars

(* ------------------------------------------------------------------ *)
(* An upgrade while requests for the same player run                    *)
(* ------------------------------------------------------------------ *)
\* The players 1 and 2 have joined the main room; no upgrade request yet.
\* One upgrade request for the player 1 comes while one caller sends leave
\* and join-specific-room requests for the same player; the client sends
\* nothing, and stays or goes away.
NextRace ==
  \/ nextConn = 0 /\ UpgradeCall({1})
  \/ \E c \in Conns : ClientClose(c) /\ UNCHANGED pmVars
  \/ LET t == <<"http", 1>> IN
       \/ RegistryStep(t)
       \/ /\ \/ CallRemovePlayer(t, 1)
             \/ \E r \in RoomIDs : CallAddPlayerToSpecificRoom(t, 1, r)
          /\ UNCHANGED <<poolVars, connVars, pmVars>>
       \/ HttpReturn(t)
  \/ \E c \in Conns :
       \/ HandlerStep(c)
       \/ WritePumpStep(c)
       \/ ReadPumpStep(c)
       \/ LookupStep(<<"ws", c>>)
       \/ LookupStep(<<"rd", c>>)
  \/ BroadcastStep

SpecRace == InitConn /\ [][NextRace]_vars

(* ------------------------------------------------------------------ *)
(* Two frames of one sender                                             *)
(* ------------------------------------------------------------------ *)
\* The broadcast of the position_update at Origin that the player 1 sent
\* first: started by handlePositionUpdateOptimized, not yet run.
FirstBroadcast == NewBroadcast(mainRoom, 1, Msg("position_update", 1, NoPlayer))

\* The player 1 and the filler 101 are members of the main room and
\* connected; the channel of 101 is empty.  The read pump of the player 1 has
\* handled a first frame, a position_update at Origin, and waits for the
\* next frame; the broadcast task of the first frame has not run yet.
InitOrder ==
  /\ \E place \in [Actors -> {MainRoomID, NoRoomID}] :
       place[1] = MainRoomID /\ InitRegistry(1, place)
  /\ InitTasks({1})
  /\ pool = [x \in {1, 101} |-> x]
  /\ count = 2
  /\ nextConn = 1
  /\ connection = [c \in AllConns |-> IF c \in {1, 101} THEN [playerID |-> c, room |-> mainRoom]
                                      ELSE [playerID |-> NoPlayer, room |-> NilRoom]]
  /\ ctxDone = [c \in AllConns |-> FALSE]
  /\ ws = [c \in AllConns |-> IF c \in {1, 101} THEN "open" ELSE "none"]
  /\ send = [c \in AllConns |-> <<>>]
  /\ events = 0
  /\ bcasts = SetToBag({FirstBroadcast})
  /\ drops = [c \in AllConns |-> 0]
  /\ preempted = {}
  /\ InitLimiter

\* The second frame comes, or the client goes away.
SpecOrder == InitOrder /\ [][NextMove]_vars

\* The rooms of the registry a player is a member of.
RoomsOf(p) == {id \in RoomIDs : rooms[id] # NilRoom /\ p \in roomPlayers[rooms[id]]}

\* C1: under any interleaving of concurrent admissions, every room of the
\* registry has at most MaxPlayersPerRoom members.
RoomCapacity ==
  \A id \in RoomIDs :
    rooms[id] # NilRoom => Cardinality(roomPlayers[rooms[id]]) <= MaxPlayersPerRoom

\* The race for the last slot: the main room is full while another admission
\* is past the optimistic check and about to take the exclusive lock.
RoomCapacityRace ==
  /\ Cardinality(roomPlayers[mainRoom]) = MaxPlayersPerRoom
  /\ \E t \in HttpTasks : thr[t].pc = "Add3" /\ thr[t].h = mainRoom
                          /\ thr[t].p \notin roomPlayers[mainRoom]

\* C2: when nothing is in flight, every entry of the player-to-room index
\* points to a room of the registry whose member map holds the player.
IndexSoundWhenQuiet ==
  Quiet =>
    \A p \in AllPlayers :
      playerToRoom[p] # NoRoomID =>
        /\ rooms[playerToRoom[p]] # NilRoom
        /\ p \in roomPlayers[rooms[playerToRoom[p]]]

\* C3: a player id is a member of at most one room of the registry, also
\* while admissions for the same id run concurrently.
AtMostOneRoom == \A p \in AllPlayers : Cardinality(RoomsOf(p)) <= 1

\* C4: when AddPlayer or AddPlayerToSpecificRoom returns success, the room
\* returned is not nil, is the registry's room of that id, holds the player,
\* and the index maps the player to it.
AdmissionSound ==
  \A t \in HttpTasks :
    (thr[t].pc = "ret" /\ thr[t].ret = "ok") =>
      /\ thr[t].h # NilRoom
      /\ rooms[thr[t].r] = thr[t].h
      /\ thr[t].p \in roomPlayers[thr[t].h]
      /\ playerToRoom[thr[t].p] = thr[t].r

\* The types of the room broadcasts.
BroadcastTypes == {"position_update", "chat_message", "player_joined", "player_left"}

\* C5: no frame of a room broadcast that originates from a player is in the
\* channel of a connection of that player.
NoSelfEcho ==
  \A c \in AllConns :
    \A i \in 1..Len(send[c]) :
      send[c][i].type \in BroadcastTypes => send[c][i].player_id # connection[c].playerID

\* Two players are connected and the channel of one holds the position
\* update of the other.
BroadcastDelivered ==
  \E c \in Conns, d \in Conns :
    /\ c # d
    /\ connection[c].playerID \in Actors
    /\ connection[d].playerID \in Actors \ {connection[c].playerID}
    /\ connection[c].playerID \in DOMAIN pool
    /\ pool[connection[c].playerID] = c
    /\ \E i \in 1..Len(send[d]) :
         send[d][i] = Msg("position_update", connection[c].playerID, NoPlayer)

\* C6: a channel never holds more than SendCap frames, and no producer ever
\* waits at a channel: the offer of a broadcast task to each of its targets,
\* of the read pump and of sendInitialRoomState can be taken in every state
\* that reaches it, whatever the channel holds.
NonBlockingOffers ==
  /\ \A c \in AllConns : Len(send[c]) <= SendCap
  /\ \A b \in BagToSet(bcasts) :
       b.collected => \A c \in b.targets : ENABLED broadcastSend(b, c)
  /\ \A c \in Conns :
       /\ thr[<<"ws", c>>].pc = "wsInit" => ENABLED HandleWebSocketInit(c)
       /\ thr[<<"rd", c>>].pc = "pmErr" => ENABLED handlePrivateMessageError(c)
       /\ thr[<<"rd", c>>].pc = "pmSend" => ENABLED handlePrivateMessageSend(c)
       /\ thr[<<"rd", c>>].pc = "pmConfirm" => ENABLED handlePrivateMessageConfirm(c)

\* The one broadcast made so far, the player_joined of the second upgrade,
\* was dropped at the full channel of 101 and is the last frame in the
\* channel of 102.
DroppedForOneTargetOnly ==
  /\ nextConn = 2
  /\ events = 0
  /\ bcasts = EmptyBag
  /\ drops[101] = 1
  /\ Len(send[101]) = SendCap
  /\ drops[102] = 0
  /\ Len(send[102]) = SendCap
  /\ send[102][SendCap] = Msg("player_joined", connection[2].playerID, NoPlayer)

\* C7: the pool never holds more than MaxConcurrentConnections connections.
PoolWithinLimit ==
  /\ count <= MaxConcurrentConnections
  /\ Cardinality(DOMAIN pool) <= MaxConcurrentConnections

\* The connection of the c-th upgrade request has no pump running.
PumpsExited(c) ==
  /\ thr[<<"wr", c>>].pc \in {"idle", "done"}
  /\ thr[<<"rd", c>>].pc \in {"idle", "done"}

\* C8: when addConnection registers a connection for a player id that has a
\* pooled connection, the earlier connection's context is cancelled and the
\* pool maps the id to the new connection; and the pumps of a connection
\* replaced this way exit in the end.
Preemption ==
  /\ [][\A c \in Conns :
          (/\ thr[<<"ws", c>>].pc = "wsAdd"
           /\ thr'[<<"ws", c>>].pc = "wsMark"
           /\ thr[<<"ws", c>>].p \in DOMAIN pool
           /\ pool[thr[<<"ws", c>>].p] \in AllConns)
          => /\ ctxDone'[pool[thr[<<"ws", c>>].p]]
             /\ pool'[thr[<<"ws", c>>].p] = c]_vars
  /\ \A c \in Conns : [](c \in preempted => <>[]PumpsExited(c))

\* The first connection was replaced while its pumps ran, and both pumps
\* have exited.
PreemptedPumpsDone ==
  /\ 1 \in preempted
  /\ thr[<<"wr", 1>>].pc = "done"
  /\ thr[<<"rd", 1>>].pc = "done"

\* C9: of the private_message frames a connection handles in one window of
\* the limiter, the first PMLimit pass and every later one is dropped with
\* no private_message, private_message_sent or private_message_error
\* offered for it; after a burst of PMBurst frames in one window, none of
\* which failed the checks, PMLimit messages were offered to the target and
\* PMLimit confirmations to the sender.
RateLimit ==
  \A c \in Conns :
    LET w == tally[c] IN
    /\ w.passed = IF w.seen <= PMLimit THEN w.seen ELSE PMLimit
    /\ w.offered <= w.passed
    /\ w.sent + w.errors + w.bad <= w.passed
    /\ (w.seen >= PMBurst /\ w.bad = 0 /\ thr[<<"rd", c>>].pc = "read")
         => (w.offered = PMLimit /\ w.sent = PMLimit /\ w.errors = 0)

\* A burst of PMBurst frames in one window has been handled: the target was
\* offered PMLimit messages and the sender PMLimit confirmations.
BurstHandled ==
  \E c \in Conns :
    /\ tally[c].seen = PMBurst
    /\ tally[c].bad = 0
    /\ thr[<<"rd", c>>].pc = "read"
    /\ tally[c].offered = PMLimit
    /\ tally[c].sent = PMLimit

\* C10: the sender is offered private_message_sent only for a message that
\* was offered to a connection of the target.
ConfirmedOnlyIfOffered ==
  \A c \in Conns : thr[<<"rd", c>>].pc = "pmConfirm" => thr[<<"rd", c>>].conn \in AllConns

\* The read pump of the connection c has ended after its transport went down,
\* and the player has no other connection that is still up.
Disconnected(c) ==
  /\ ws[c] = "closed"
  /\ thr[<<"rd", c>>].pc = "done"
  /\ \A d \in Conns \ {c} :
       connection[d].playerID = connection[c].playerID => ws[d] # "open"

\* C11: when a player's connection has closed and a run of the player sweeper
\* that began more than DisconnectedPlayerTTL after the disconnect has
\* completed, the player is in no room's member map and has no entry in the
\* player-to-room index.
SweptAfterGrace ==
  \A c \in Conns :
    LET p == connection[c].playerID
        sw == thr[PlayerSweeper]
    IN (/\ Disconnected(c)
        /\ sw.pc = "idle" /\ sw.ret = "swept"
        /\ Sub(sw.at, thr[<<"rd", c>>].at) > DisconnectedPlayerTTL)
       => (RoomsOf(p) = {} /\ playerToRoom[p] = NoRoomID)

\* C12: after a player's transport has closed, and for as long as less than
\* DisconnectedPlayerTTL has elapsed since the disconnect, the player's record
\* is in the member map of its room with IsActive = false.
RecordKeptInGrace ==
  \A c \in Conns :
    LET p == connection[c].playerID
        room == connection[c].room
    IN (Disconnected(c) /\ Sub(now, thr[<<"rd", c>>].at) < DisconnectedPlayerTTL)
       => (p \in roomPlayers[room] /\ ~playerRec[room][p].IsActive)


\* The room objects that rm.rooms holds.
LiveRooms == {rooms[id] : id \in RoomIDs} \ {NilRoom}

\* C13: the room sweeper deletes a room from rooms only if it is not the main
\* room and has no member at the moment of the deletion, also when
\* admissions run concurrently; so the main room is in rooms in every state
\* and no room that was deleted has a member.
SweepDeletesEmptyOnly ==
  /\ [][\A id \in RoomIDs :
          (rooms[id] # NilRoom /\ rooms'[id] = NilRoom)
            => (id # MainRoomID /\ roomPlayers[rooms[id]] = {})]_vars
  /\ [](rooms[MainRoomID] = mainRoom)
  /\ [](\A h \in 1..nextRoom : h \notin LiveRooms => roomPlayers[h] = {})

\* The room of the id is in rooms, has no member, and its last activity is
\* more than InactiveRoomTimeout ago.
EmptyInactive(id) ==
  /\ rooms[id] # NilRoom
  /\ roomPlayers[rooms[id]] = {}
  /\ Sub(now, lastActivity[rooms[id]]) > InactiveRoomTimeout

\* C14: a room other than the main room that is empty and inactive for more
\* than InactiveRoomTimeout is eventually deleted from rooms by the room
\* sweeper, unless it gets a member before.
InactiveRoomSwept ==
  \A id \in RoomIDs \ {MainRoomID} :
    [](EmptyInactive(id) =>
         <>(rooms[id] = NilRoom \/ (rooms[id] # NilRoom /\ roomPlayers[rooms[id]] # {})))

\* The room sweeper has deleted ROOM1, which was empty and inactive.
RoomSwept ==
  /\ rooms["ROOM1"] = NilRoom
  /\ roomPlayers[2] = {}
  /\ thr[RoomSweeper].pc = "idle" /\ thr[RoomSweeper].ret = "swept"
  /\ Sub(thr[RoomSweeper].at, lastActivity[2]) > InactiveRoomTimeout

\* The only caller's call has returned; prior holds what it saw after the call
\* before, if there was one.
Returned == thr[<<"http", 1>>].pc = "ret" /\ prior.n = calls - 1

\* Two views of the registry agree on the rooms, their members and the index.
SameButActivity(a, b) ==
  /\ a.index = b.index
  /\ \A id \in RoomIDs : /\ a.rooms[id].exists = b.rooms[id].exists
                         /\ a.rooms[id].members = b.rooms[id].members

\* The player has no index entry and is a member of no room in the view.
NotIn(p, a) == a.index[p] = NoRoomID /\ \A id \in RoomIDs : p \notin a.rooms[id].members

\* C15: AddPlayer(p) called a second time directly after AddPlayer(p) leaves the
\* rooms, their member sets and the index as the first call left them.
AddPlayerTwice ==
  LET s == thr[<<"http", 1>>] IN
  (Returned /\ s.op = "AddPlayer" /\ prior.op = "AddPlayer" /\ prior.p = s.p)
    => SameButActivity(Registry, prior.reg)

\* The second AddPlayer(p) has returned after the first one admitted p, who
\* was in no room, to the main room.
AddPlayerTwiceDone ==
  LET s == thr[<<"http", 1>>] IN
  /\ Returned /\ s.op = "AddPlayer" /\ prior.op = "AddPlayer" /\ prior.p = s.p
  /\ NotIn(s.p, prior.before) /\ prior.ret = "ok"
  /\ s.p \in roomPlayers[mainRoom]

\* C16, as stated: for a player p that is not in the registry and any room id r,
\* AddPlayerToSpecificRoom(p, r) followed by RemovePlayer(p) leaves the set of
\* rooms, every room's member set and the index as they were before.
AddThenRemoveRestores ==
  LET s == thr[<<"http", 1>>] IN
  (/\ Returned /\ s.op = "RemovePlayer"
   /\ prior.op = "AddPlayerToSpecificRoom" /\ prior.p = s.p
   /\ NotIn(s.p, prior.before))
    => SameButActivity(Registry, prior.before)

\* C16, amended: for a player p that is not in the registry and any room id
\* r, AddPlayerToSpecificRoom(p, r) followed by RemovePlayer(p) leaves every
\* room's member set and the index as they were before, and the set of rooms
\* as it was before with r added to it: a room the call created stays, empty.
AddThenRemoveLeavesRoom ==
  LET s == thr[<<"http", 1>>] IN
  (/\ Returned /\ s.op = "RemovePlayer"
   /\ prior.op = "AddPlayerToSpecificRoom" /\ prior.p = s.p
   /\ NotIn(s.p, prior.before))
    => /\ Registry.index = prior.before.index
       /\ \A id \in RoomIDs :
            /\ Registry.rooms[id].members = prior.before.rooms[id].members
            /\ Registry.rooms[id].exists = (prior.before.rooms[id].exists \/ id = prior.r)

\* RemovePlayer(p) has returned after AddPlayerToSpecificRoom(p, r) made the
\* room r and admitted p, who was in no room before.
AddThenRemoveDone ==
  LET s == thr[<<"http", 1>>] IN
  /\ Returned /\ s.op = "RemovePlayer"
  /\ prior.op = "AddPlayerToSpecificRoom" /\ prior.p = s.p /\ prior.ret = "ok"
  /\ NotIn(s.p, prior.before)
  /\ ~prior.before.rooms[prior.r].exists
  /\ s.p \in prior.reg.rooms[prior.r].members

AdmissionInto(id, n) ==
  LET s == thr[<<"http", 1>>] IN
  /\ Returned
  /\ s.op \in {"AddPlayer", "AddPlayerToSpecificRoom"} /\ s.r = id
  /\ NotIn(s.p, prior.reg)
  /\ prior.reg.rooms[id].exists
  /\ Cardinality(prior.reg.rooms[id].members) = n

\* C18: the admission of a new player into a room with MaxPlayersPerRoom - 1
\* members succeeds and makes it MaxPlayersPerRoom; into a room with
\* MaxPlayersPerRoom members it fails with "room is full" and leaves the
\* room's members as they were.
TwentiethAdmitted ==
  LET s == thr[<<"http", 1>>] IN
  \A id \in RoomIDs :
    /\ AdmissionInto(id, MaxPlayersPerRoom - 1)
         => /\ s.ret = "ok"
            /\ Registry.rooms[id].members = prior.reg.rooms[id].members \cup {s.p}
            /\ Cardinality(Registry.rooms[id].members) = MaxPlayersPerRoom
    /\ AdmissionInto(id, MaxPlayersPerRoom)
         => /\ s.ret = "full"
            /\ Registry.rooms[id].members = prior.reg.rooms[id].members

\* A full room has refused a new player.
FullRoomRefused ==
  /\ AdmissionInto(MainRoomID, MaxPlayersPerRoom)
  /\ thr[<<"http", 1>>].ret = "full"
  /\ Cardinality(roomPlayers[mainRoom]) = MaxPlayersPerRoom

\* C19: a GetPlayer(id) that finds the index entry of id pointing at a room
\* whose member map does not hold id, or at a room that is no longer in
\* rooms, returns absent and deletes the index entry.
GetPlayerRepairs ==
  [][\A t \in Tasks :
       (/\ \/ thr[t].pc = "gp3" /\ thr[t].q \notin roomPlayers[thr[t].h]
           \/ thr[t].pc = "gp2b"
        /\ thr'[t].pc # thr[t].pc)
         => (thr'[t].pc \in {"wsClose", "pmErr"} /\ playerToRoom'[thr[t].q] = NoRoomID)]_vars

\* C20: GetPlayerRoom(id) returns a room only if its member map holds id; when
\* the index entry of id is stale it returns absent and deletes the entry.
GetPlayerRoomRepairs ==
  [][\A t \in Tasks :
       (thr[t].pc = "gr2" /\ thr'[t].pc # "gr2")
         => LET room == getRoomByID(thr[t].rid) IN
            IF room # NilRoom /\ thr[t].p \in roomPlayers[room]
            THEN thr'[t].h = room
            ELSE thr'[t].h = NilRoom /\ playerToRoom'[thr[t].p] = NoRoomID]_vars

\* The handler, the write pump and the read pump of the c-th upgrade request
\* have all ended.
TasksEnded(c) ==
  /\ PumpsExited(c)
  /\ thr[<<"ws", c>>].pc = "ret"

\* C21: once the context of a connection is cancelled (a transport error, a
\* leave_room frame, the replacement by a connection of the same player),
\* its write pump and its read pump exit and its handler returns in the end.
CancelledTasksEnd ==
  \A c \in Conns : ctxDone[c] ~> TasksEnded(c)

\* A connection that no other has replaced was cancelled, its pumps ran and
\* have exited and its handler has returned.
CancelledAllEnded ==
  \E c \in Conns :
    /\ ctxDone[c]
    /\ c \notin preempted
    /\ thr[<<"wr", c>>].pc = "done"
    /\ thr[<<"rd", c>>].pc = "done"
    /\ thr[<<"ws", c>>].pc = "ret"

\* The transport of the connection c is down and its read pump is in
\* ReadJSON, which fails: by the peer, by a deadline, or by the Close that
\* follows a failed write.
TransportError(c) ==
  /\ ws[c] = "closed"
  /\ thr[<<"rd", c>>].pc = "read"

\* C22: after a transport error on a running connection the disconnect
\* cleanup completes in the end: the player is in no room's member map, and
\* the pool does not hold the connection.
DisconnectCleanup ==
  \A c \in Conns :
    /\ TransportError(c) ~> (RoomsOf(connection[c].playerID) = {})
    /\ TransportError(c) ~> (getConnection(connection[c].playerID) # c)

\* The step of HandleWebSocket for the c-th upgrade request that sends the
\* initial room state of a player who is in the room, with other members.
Connects(c) ==
  LET s == thr[<<"ws", c>>] IN
  /\ s.pc = "wsInit"
  /\ thr'[<<"ws", c>>].pc = "wsWait"
  /\ roomPlayers[s.h] \ {s.p} # {}

\* The batch for the newcomer of the c-th upgrade request: one player_joined
\* for every member other than the newcomer.
SnapshotFor(c) ==
  LET s == thr[<<"ws", c>>] IN Batch(roomPlayers[s.h] \ {s.p})

\* The step starts one broadcast, of a player_joined for the newcomer that
\* excludes the newcomer.
Announces(c) ==
  LET s == thr[<<"ws", c>>] IN
  bcasts' = bcasts (+) SetToBag({[room |-> s.h, exclude |-> s.p,
                                  msg |-> Msg("player_joined", s.p, NoPlayer),
                                  collected |-> FALSE, targets |-> {}]})

\* A broadcast of player_joined for p collects the pooled connections of the
\* members other than p, and each of them is offered the frame once.
JoinOfferedOnce ==
  [][\A b \in BagToSet(bcasts) :
       (b.msg.type = "player_joined" /\ CopiesIn(b, bcasts') < CopiesIn(b, bcasts))
         => LET p == b.msg.player_id
                to == {pool[q] : q \in (roomPlayers[b.room] \ {p}) \cap DOMAIN pool}
            IN IF ~b.collected
               THEN /\ send' = send
                    /\ to # {} => BagIn([b EXCEPT !.collected = TRUE, !.targets = to], bcasts')
                    /\ to = {} => bcasts' = bcasts (-) SetToBag({b})
               ELSE \E c \in b.targets :
                      /\ connection[c].playerID # p
                      /\ send' = [send EXCEPT ![c] = Offer(@, Msg("player_joined", p, NoPlayer))]
                      /\ \A d \in BagToSet(bcasts') \ BagToSet(bcasts) :
                           d.targets = b.targets \ {c}]_vars

\* C23, as stated: on connect of p to a room with other members, exactly one
\* batch frame is enqueued to p, with one player_joined per other member and
\* none for p; and each other member with a pooled connection is offered
\* exactly one player_joined for p.
InitialRoomStateEnqueued ==
  /\ [][\A c \in Conns :
          Connects(c) => (send'[c] = Append(send[c], SnapshotFor(c)) /\ Announces(c))]_vars
  /\ JoinOfferedOnce

\* C23, amended: the batch is offered to p's channel once and is enqueued
\* when the channel has room; it is dropped when broadcasts have filled the
\* channel since the connection was registered.
InitialRoomStateOffered ==
  /\ [][\A c \in Conns :
          Connects(c) =>
            /\ send'[c] = IF Len(send[c]) < SendCap THEN Append(send[c], SnapshotFor(c))
                          ELSE send[c]
            /\ \A d \in AllConns \ {c} : send'[d] = send[d]
            /\ thr[<<"ws", c>>].p \notin SnapshotFor(c).messages
            /\ Announces(c)]_vars
  /\ JoinOfferedOnce

\* A newcomer's channel holds its batch, and the channel of another member
\* holds the player_joined for the newcomer.
SnapshotAndJoinDelivered ==
  \E c \in Conns, d \in AllConns :
    LET s == thr[<<"ws", c>>] IN
    /\ d # c
    /\ s.pc = "wsWait"
    /\ send[c] = <<Batch(roomPlayers[s.h] \ {s.p})>>
    /\ roomPlayers[s.h] \ {s.p} # {}
    /\ send[d] # <<>>
    /\ send[d][Len(send[d])] = Msg("player_joined", s.p, NoPlayer)

\* The read pump of c finishes handlePositionUpdateOptimized for a sender
\* that is a member of the room it has looked up.
StoresPosition(c) ==
  LET t == <<"rd", c>> IN
  /\ thr[t].pc = "pos"
  /\ thr'[t].pc # "pos"
  /\ connection[c].playerID \in roomPlayers[thr[t].h]

\* A broadcast of position_update collects the pooled connections of the
\* members other than the sender, and each of them is offered the frame, with
\* the sender's id and the position sent, once.
PositionOfferedOnce ==
  [][\A b \in BagToSet(bcasts) :
       (b.msg.type = "position_update" /\ CopiesIn(b, bcasts') < CopiesIn(b, bcasts))
         => LET s == b.msg.player_id
                to == {pool[q] : q \in (roomPlayers[b.room] \ {s}) \cap DOMAIN pool}
            IN IF ~b.collected
               THEN /\ send' = send
                    /\ to # {} => BagIn([b EXCEPT !.collected = TRUE, !.targets = to], bcasts')
                    /\ to = {} => bcasts' = bcasts (-) SetToBag({b})
               ELSE \E c \in b.targets :
                      /\ connection[c].playerID # s
                      /\ send' = [send EXCEPT ![c] = Offer(@, b.msg)]
                      /\ \A d \in BagToSet(bcasts') \ BagToSet(bcasts) :
                           d.targets = b.targets \ {c}]_vars

BroadcastStaysInRoom ==
  [][/\ \A b \in BagToSet(bcasts') :
          (b.msg.type \in {"chat_message", "position_update"} /\ ~b.collected
             /\ CopiesIn(b, bcasts') > CopiesIn(b, bcasts))
            => b.msg.player_id \in roomPlayers[b.room]
     /\ \A b \in BagToSet(bcasts) :
          (b.msg.type \in {"chat_message", "position_update"} /\ ~b.collected
             /\ CopiesIn(b, bcasts') < CopiesIn(b, bcasts))
            => \A d \in BagToSet(bcasts') \ BagToSet(bcasts) :
                 \A c \in d.targets : connection[c].playerID \in roomPlayers[b.room]]_vars

\* C26: the player_id of an outbound chat_message and of an outbound
\* private_message is the player id of the connection that read the inbound
\* frame: the frame the handler sends out is the same whatever player_id the
\* client has put into the inbound frame.
SenderIsConnection ==
  [][\A c \in Conns :
       LET t == <<"rd", c>>
           s == connection[c].playerID
           to == getConnection(thr[t].m.target)
       IN /\ (thr[t].pc = "chat" /\ thr'[t].pc # "chat")
               => bcasts' = bcasts (+) SetToBag({NewBroadcast(thr[t].h, s,
                                                   Msg("chat_message", s, NoPlayer))})
          /\ (thr[t].pc = "pmSend" /\ thr'[t].pc # "pmSend" /\ to \in AllConns)
               => send' = [send EXCEPT ![to] =
                             Offer(@, Msg("private_message", s, thr[t].m.target))]]_vars

\* The connection of player 1 has read a private_message for the filler 102
\* in which the client names player 2 as the sender, and the channel of 102
\* has taken the frame with player 1 as the sender.
ForgedSenderOverridden ==
  \E c \in Conns :
    /\ connection[c].playerID = 1
    /\ thr[<<"rd", c>>].pc = "pmConfirm"
    /\ thr[<<"rd", c>>].m.player_id = 2
    /\ Len(send[pool[102]]) = SendCap
    /\ send[pool[102]][SendCap] = Msg("private_message", 1, 102)

\* The c-th upgrade request was turned away: with 401, with 503, or by
\* closing the transport it had opened.
Rejected(c) ==
  /\ thr[<<"ws", c>>].pc = "ret"
  /\ thr[<<"ws", c>>].ret \in {"401", "503", "closed"}

\* C27: an upgrade request with an empty token is answered 401 and one that
\* finds the pool at MaxConcurrentConnections is answered 503; up to its
\* rejection, also by closing the transport when GetPlayer or GetPlayerRoom
\* finds nothing, a request adds no connection to the pool, starts no pump,
\* enqueues no frame, starts no broadcast and changes no room's membership;
\* and a rejected request has no connection in the pool and no pump.
RejectedUpgradeNoEffect ==
  /\ [](\A c \in Conns :
          Rejected(c) =>
            /\ connection[c].playerID = NoPlayer
            /\ \A p \in DOMAIN pool : pool[p] # c
            /\ thr[<<"wr", c>>].pc = "idle" /\ thr[<<"rd", c>>].pc = "idle"
            /\ send[c] = <<>>
            /\ ws[c] = IF thr[<<"ws", c>>].ret = "closed" THEN "closed" ELSE "none")
  /\ [][\A c \in Conns :
          LET t == <<"ws", c>> IN
          (thr'[t] # thr[t]
             /\ thr[t].pc \notin {"wsAdd", "wsMark", "wsInit", "wsWait", "wsDefer"})
            => /\ pool' = pool /\ count' = count
               /\ send' = send /\ bcasts' = bcasts
               /\ roomPlayers' = roomPlayers
               /\ thr'[<<"wr", c>>] = thr[<<"wr", c>>]
               /\ thr'[<<"rd", c>>] = thr[<<"rd", c>>]
               /\ thr[t].pc = "idle"
                    => (thr'[t].ret = "401" <=> thr'[t].p = NoPlayer)
               /\ thr[t].pc = "wsAccept"
                    => (thr'[t].ret = "503" <=> count >= MaxConcurrentConnections)
               /\ thr'[t].pc = "wsClose"
                    => thr[t].p \notin UNION {roomPlayers[rooms[id]] :
                                               id \in {r \in RoomIDs : rooms[r] # NilRoom}}]_vars

\* The request for player 2, who has joined no room, has opened the transport
\* and closed it, and a request without a token was answered 401; the pool
\* holds what it held before and nobody was sent a frame.
UpgradesRejected ==
  \E c \in Conns, d \in Conns :
    /\ Rejected(c) /\ thr[<<"ws", c>>].ret = "closed" /\ ws[c] = "closed"
    /\ Rejected(d) /\ thr[<<"ws", d>>].ret = "401"
    /\ count = MaxConcurrentConnections - 1
    /\ \A x \in AllConns : send[x] = <<>>

\* C28: a join-specific-room request whose room_id is empty or longer than 10
\* characters is answered 400 and changes nothing in the registry: no room,
\* no membership, no index entry; a request whose room_id has exactly 10
\* characters goes on to AddPlayerToSpecificRoom.
RoomIDLengthChecked ==
  [][\A t \in HttpTasks :
       (thr[t].pc = "idle" /\ thr'[t].pc # "idle")
         => LET body == thr'[t].body IN
            /\ (body.chars = 0 \/ body.chars > MaxRoomIDLen)
                 => /\ thr'[t].pc = "ret" /\ thr'[t].ret = "400"
                    /\ UNCHANGED <<rooms, roomPlayers, nextRoom, playerToRoom>>
            /\ body.chars = MaxRoomIDLen => thr'[t].pc = "Spec1"]_vars

\* What holds of the room_id check: the limit is on the bytes of the room_id.
RoomIDBytesChecked ==
  [][\A t \in HttpTasks :
       (thr[t].pc = "idle" /\ thr'[t].pc # "idle")
         => LET body == thr'[t].body IN
            /\ (body.chars = 0 \/ len(body) > MaxRoomIDLen)
                 => /\ thr'[t].pc = "ret" /\ thr'[t].ret = "400"
                    /\ UNCHANGED <<rooms, roomPlayers, nextRoom, playerToRoom>>
            /\ (body.chars > 0 /\ len(body) <= MaxRoomIDLen) => thr'[t].pc = "Spec1"]_vars

\* The handler of a join request that the registry has admitted is about to
\* emit the RecordLastRoom event.
Emits(t) ==
  /\ thr[t].pc = "ret"
  /\ thr[t].op \in {"AddPlayer", "AddPlayerToSpecificRoom"}
  /\ thr[t].ret = "ok"

\* C29: UpdateLastRoomAsync never makes its caller wait: whatever the channel
\* holds and whatever the worker does, the handler that has the registry's
\* answer can end; when the channel holds DbQueueCap operations, or was never
\* made so that no worker runs, the operation is dropped and the request
\* completes; otherwise the operation is appended; the channel never holds
\* more than DbQueueCap operations.
LastRoomSinkNeverBlocks ==
  /\ [](Len(dbOperations.buf) <= DbQueueCap)
  /\ [](\A t \in HttpTasks : thr[t].pc = "ret" => ENABLED HttpReturn(t))
  /\ [][\A t \in HttpTasks :
          (Emits(t) /\ thr'[t] # thr[t])
            => /\ thr'[t] = Idle
               /\ dbOperations' =
                    IF ~dbOperations.made \/ Len(dbOperations.buf) >= DbQueueCap
                    THEN dbOperations
                    ELSE [dbOperations EXCEPT
                            !.buf = Append(@, [userID |-> thr[t].p, roomID |-> thr[t].r])]]_vars

\* A join request was admitted and has completed while the channel held
\* DbQueueCap operations: the channel holds what it held, and no operation
\* for the player who joined.
EventDroppedJoinCompleted ==
  /\ dbOperations.made
  /\ Len(dbOperations.buf) = DbQueueCap
  /\ thr[DbWorker].pc = "range"
  /\ \A i \in 1..DbQueueCap : dbOperations.buf[i].userID = 101
  /\ \A t \in HttpTasks : thr[t].pc = "idle"
  /\ \E p \in Actors : playerToRoom[p] # NoRoomID

\* The task t is in a Lock or RLock call that cannot return while the task u
\* holds the lock: u holds it for writing or keeps new readers out, or t
\* wants to write and u holds it for reading.
WaitsFor(t, u) ==
  /\ t # u
  /\ thr[t].pc \in {"mu", "muWait"}
  /\ thr[t].todo # <<>>
  /\ LET l == Head(thr[t].todo)[2]
         call == Head(thr[t].todo)[1]
     IN \/ call = "RLock" /\ mu[l].writer = u
        \/ call = "Lock" /\ thr[t].pc = "mu" /\ mu[l].writer = u
        \/ call = "Lock" /\ thr[t].pc = "muWait" /\ u \in mu[l].readers

\* C30: no interleaving of AddPlayer, AddPlayerToSpecificRoom, RemovePlayer,
\* GetPlayer, GetRoomStats, GetManagerStats and the two sweepers reaches a
\* state where two tasks each wait for a lock that the other holds and will
\* not release before its own wait ends.
NoLockDeadlock ==
  \A t \in Tasks, u \in Tasks : ~(WaitsFor(t, u) /\ WaitsFor(u, t))

\* The locks the task t holds: those it has locked for writing, a Lock call
\* it is still waiting in not counted, and those it has locked for reading.
Holds(t) ==
  {l \in Locks :
     \/ t \in mu[l].readers
     \/ mu[l].writer = t /\ ~(thr[t].pc = "muWait" /\ Head(thr[t].todo)[2] = l)}

\* The lock the task t is about to request or is waiting for, if any.
Requests(t, l) ==
  /\ thr[t].pc \in {"mu", "muWait"}
  /\ thr[t].todo # <<>>
  /\ Head(thr[t].todo)[1] \in {"Lock", "RLock"}
  /\ Head(thr[t].todo)[2] = l

\* C31: the locks are requested in the order registry lock, player-index
\* lock, room lock: no task, the two sweepers included, requests the registry
\* lock while it holds the player-index lock or a room lock, or requests the
\* player-index lock while it holds a room lock.
LockOrder ==
  \A t \in Tasks :
    /\ Requests(t, "rm.mu") => Holds(t) \cap {"rm.playerMu", "room.mu"} = {}
    /\ Requests(t, "rm.playerMu") => "room.mu" \notin Holds(t)

\* The half of the order that concerns the room lock: no task requests the
\* registry lock or the player-index lock while it holds a room lock.
NothingUnderRoomLock ==
  \A t \in Tasks, l \in {"rm.mu", "rm.playerMu"} :
    Requests(t, l) => "room.mu" \notin Holds(t)

\* The step is an offer of the task t to the channel of the connection c:
\* the frame is enqueued, or dropped at the full channel.
OffersTo(c) == send'[c] # send[c] \/ drops'[c] # drops[c]

\* C32: no task offers a frame to an outbound channel while it holds a room
\* lock: the handler does not hold room.mu when sendInitialRoomState offers
\* the initial batch, and a broadcast task offers only after the step in
\* which it collected its targets under room.mu.RLock and released the lock.
NoOfferUnderRoomLock ==
  [][/\ \A c \in Conns :
          thr[<<"ws", c>>].pc = "wsInit" /\ thr'[<<"ws", c>>].pc # "wsInit" /\ OffersTo(c)
            => "room.mu" \notin Holds(<<"ws", c>>)
     /\ \A b \in BagToSet(bcasts) :
          (\E c \in b.targets : OffersTo(c)) /\ CopiesIn(b, bcasts') < CopiesIn(b, bcasts)
            => b.collected]_vars

\* The broadcast half of C32 alone.
BroadcastOffersAfterCollect ==
  [][\A b \in BagToSet(bcasts) :
       (\E c \in b.targets : OffersTo(c)) /\ CopiesIn(b, bcasts') < CopiesIn(b, bcasts)
         => b.collected]_vars

\* The step changes the membership of the room h, or stores a position sent
\* by one of its members.
TouchesRoom(h) ==
  \/ roomPlayers'[h] # roomPlayers[h]
  \/ \E c \in Conns : StoresPosition(c) /\ thr[<<"rd", c>>].h = h

\* C33: the last_activity of a room never decreases, and every step that
\* changes the room's membership (an admission, RemovePlayer, the removal by
\* disconnect cleanup) or stores an accepted position update sets it to the
\* time of the step.
LastActivityAdvances ==
  [][\A h \in RoomObjs :
       /\ lastActivity'[h] >= lastActivity[h]
       /\ TouchesRoom(h) => lastActivity'[h] = now]_vars

\* The same for every change other than the removal by disconnect cleanup.
LastActivityAdvancesButDisconnect ==
  [][\A h \in RoomObjs :
       /\ lastActivity'[h] >= lastActivity[h]
       /\ TouchesRoom(h) /\ (\A c \in Conns : thr[<<"rd", c>>].pc # "disc")
            => lastActivity'[h] = now]_vars

\* The read pump of c ends its disconnect cleanup in this step.
CleanupEnds(c) ==
  thr[<<"rd", c>>].pc # "rdExit" /\ thr'[<<"rd", c>>].pc = "rdExit"

\* The step starts one broadcast of player_left for the player of c in the
\* room the connection was made for, the player left out.
AnnouncesLeft(c) ==
  LET p == connection[c].playerID IN
  bcasts' = Spawn(NewBroadcast(connection[c].room, p, Msg("player_left", p, NoPlayer)))

\* A broadcast of player_left collects the pooled connections of the members
\* that remain, and each of them is offered the frame once.
PlayerLeftOfferedOnce ==
  [][\A b \in BagToSet(bcasts) :
       (b.msg.type = "player_left" /\ CopiesIn(b, bcasts') < CopiesIn(b, bcasts))
         => LET s == b.msg.player_id
                to == {pool[q] : q \in (roomPlayers[b.room] \ {s}) \cap DOMAIN pool}
            IN IF ~b.collected
               THEN /\ send' = send
                    /\ to # {} => BagIn([b EXCEPT !.collected = TRUE, !.targets = to], bcasts')
                    /\ to = {} => bcasts' = bcasts (-) SetToBag({b})
               ELSE \E c \in b.targets :
                      /\ connection[c].playerID # s
                      /\ send' = [send EXCEPT ![c] = Offer(@, b.msg)]
                      /\ \A d \in BagToSet(bcasts') \ BagToSet(bcasts) :
                           d.targets = b.targets \ {c}]_vars

\* C34: whenever a running connection leaves, by a read error, a write
\* error, a cancellation or a leave_room frame, its disconnect cleanup starts
\* one broadcast of player_left for its player, which offers the frame once
\* to the pooled connection of every member that remains in the room.
PlayerLeftAnnounced ==
  /\ [][\A c \in Conns : CleanupEnds(c) => AnnouncesLeft(c)]_vars
  /\ PlayerLeftOfferedOnce

\* The same for the connections whose player is still a member of a room
\* when the cleanup ends or removes it: every way of leaving but leave_room.
PlayerLeftAnnouncedIfMember ==
  [][\A c \in Conns :
       CleanupEnds(c) /\ RoomsOf(connection[c].playerID) # {} => AnnouncesLeft(c)]_vars

\* C35: after a same-player preemption, the deferred removeConnection of the
\* preempted connection's handler neither removes nor cancels the connection
\* that replaced it: the pool keeps mapping the player id to the preempting
\* connection, whose context stays as it was.
TeardownSparesSuccessor ==
  [][\A c \in Conns :
       LET t == <<"ws", c>>
           p == thr[t].p
       IN (/\ thr[t].pc = "wsDefer"
           /\ thr'[t].pc # "wsDefer"
           /\ p \in DOMAIN pool
           /\ pool[p] # c)
            => /\ p \in DOMAIN pool'
               /\ pool'[p] = pool[p]
               /\ ctxDone' = ctxDone]_vars

\* C36: after a same-player preemption, the disconnect cleanup of the
\* preempted connection leaves the player a member of its room while the
\* preempting connection is registered and running, so the position updates
\* and chat of the preempting connection still find the room.
PreemptedCleanupKeepsMember ==
  [][\A c \in Conns :
       LET t == <<"rd", c>>
           p == connection[c].playerID
       IN (/\ thr[t].pc = "disc"
           /\ thr'[t].pc # "disc"
           /\ c \in preempted
           /\ p \in DOMAIN pool
           /\ pool[p] \in Conns \ {c}
           /\ ~ctxDone[pool[p]])
            => /\ roomPlayers' = roomPlayers
               /\ RoomsOf(p)' # {}]_vars

\* The handler of c runs sendInitialRoomState in this step.
ReadsOwnRecord(c) ==
  thr[<<"ws", c>>].pc = "wsInit" /\ thr'[<<"ws", c>>].pc # "wsInit"

\* C37: whatever RemovePlayer, leave-room or room-move request for the same
\* player runs beside an upgrade, the newcomer is a member of the room when
\* sendInitialRoomState reads room.Players[playerID] for the player_joined
\* message: the handler never reads the record of an absent player.
NewcomerStillMember ==
  [][\A c \in Conns :
       ReadsOwnRecord(c) => thr[<<"ws", c>>].p \in roomPlayers[thr[<<"ws", c>>].h]]_vars

CountMatchesConnections ==
  /\ count = Cardinality(DOMAIN pool)
  /\ count >= 0

\* A connection was replaced by one of the same player, both handlers have
\* run their deferred removeConnection, the second one finding no entry, and
\* the pool is empty.
ReplacedAndBothRemoved ==
  /\ 1 \in preempted
  /\ \A c \in Conns : thr[<<"ws", c>>].pc = "ret" /\ thr[<<"ws", c>>].ret = "done"
  /\ DOMAIN pool = {}
  /\ count = 0

\* The frame was produced by the second inbound frame of the player 1: a
\* position_update elsewhere than Origin, or a chat_message.
SecondFrame(f) ==
  /\ f.player_id = 1
  /\ \/ f.type = "position_update" /\ f.position # Origin
     \/ f.type = "chat_message"

\* C40: the frames produced by two consecutive inbound frames of one sender
\* are enqueued to the channel of a common peer in the order the sender sent
\* them: the frame of the second never stands before the frame of the first,
\* and is not enqueued while the frame of the first is still to come.
SenderOrderKept ==
  \A d \in AllConns :
    /\ \A i \in 1..Len(send[d]), j \in 1..Len(send[d]) :
         (SecondFrame(send[d][i]) /\ send[d][j] = FirstBroadcast.msg) => j < i
    /\ (\E i \in 1..Len(send[d]) : SecondFrame(send[d][i]))
         => \A b \in BagToSet(bcasts) : b.msg = FirstBroadcast.msg => d \notin b.targets

====
